---------------------------- MODULE Spec2Model ----------------------------
(***************************************************************************)
(* A model of the MPD client session (MpdClientImpl): the connection       *)
(* lifecycle, the command dispatcher cmd(), the reply decoders, and the    *)
(* search cascade, with the mpd2 transport as the environment.             *)
(*                                                                         *)
(* Strings of the program are sequences of one-character strings, so that  *)
(* split/trim/replace/match are computed as the code computes them.        *)
(***************************************************************************)
EXTENDS Integers, Sequences, FiniteSets, TLC

(***************************************************************************)
(* Bounds of the model.                                                    *)
(***************************************************************************)
\* longest query enumerated exhaustively over QueryAlphabet
MaxQLen == 4

\* characters the enumerated queries are made of
QueryAlphabet == {"a", " ", "-", "("}

(***************************************************************************)
(* String primitives (JavaScript String.prototype semantics).              *)
(***************************************************************************)
\* the value of an absent property
Undefined == <<"undefined">>

\* s.indexOf(sub) + 1 for a non-empty sub: the first position, or 0
IndexOf(s, sub) ==
    LET hits == {i \in 1..(Len(s) - Len(sub) + 1) : SubSeq(s, i, i + Len(sub) - 1) = sub}
    IN  IF hits = {} THEN 0 ELSE CHOOSE i \in hits : \A j \in hits : i <= j

\* s.includes(sub)
Includes(s, sub) == IndexOf(s, sub) # 0

\* s.split(sep) for a non-empty separator: the pieces, left to right
RECURSIVE Split(_, _)
Split(s, sep) ==
    LET i == IndexOf(s, sep)
    IN  IF i = 0 THEN <<s>>
        ELSE <<SubSeq(s, 1, i - 1)>> \o Split(SubSeq(s, i + Len(sep), Len(s)), sep)

\* the characters String.prototype.trim removes (those the model uses)
Whitespace == {" ", "\t", "\n", "\r"}

\* s.trim()
Trim(s) ==
    LET keep == {i \in 1..Len(s) : s[i] \notin Whitespace}
    IN  IF keep = {} THEN <<>>
        ELSE SubSeq(s, CHOOSE i \in keep : \A j \in keep : i <= j,
                       CHOOSE i \in keep : \A j \in keep : i >= j)

\* s.replace(/"/g, '\\"'): a backslash before every double quote
RECURSIVE EscapeQuotes(_)
EscapeQuotes(s) ==
    IF s = <<>> THEN <<>>
    ELSE (IF Head(s) = "\"" THEN <<"\\", "\"">> ELSE <<Head(s)>>) \o EscapeQuotes(Tail(s))

\* the lines of a reply joined by newlines
RECURSIVE Join(_)
Join(lines) ==
    IF lines = <<>> THEN <<>>
    ELSE IF Len(lines) = 1 THEN lines[1]
    ELSE lines[1] \o <<"\n">> \o Join(Tail(lines))

\* one character of s.toLowerCase()
LowerChar(c) ==
    CASE c = "A" -> "a" [] c = "F" -> "f" [] c = "I" -> "i" [] c = "L" -> "l"
      [] c = "E" -> "e" [] c = "T" -> "t" [] c = "P" -> "p" [] c = "D" -> "d"
      [] c = "M" -> "m" [] c = "O" -> "o" [] c = "R" -> "r"
      [] OTHER -> c

\* s.toLowerCase()
ToLowerCase(s) == [i \in 1..Len(s) |-> LowerChar(s[i])]

(***************************************************************************)
(* Query normalization.                                                    *)
(***************************************************************************)
\* MpdClientImpl.processSearchQuery
processSearchQuery(query) ==
    IF Includes(query, <<" ", "-", " ">>) /\ Includes(query, <<"(">>)
    THEN LET titlePart == Split(Split(query, <<" ", "-", " ">>)[2], <<" ", "(">>)[1]
         IN  IF titlePart # <<>> THEN Trim(titlePart) ELSE query
    ELSE query

\* a variant that forgets the trim()
simplifiedQueryMut(query) == Split(query, <<"(">>)[1]

\* the simplified title of the second try: query.split("(")[0].trim()
simplifiedQuery(query) == Trim(Split(query, <<"(">>)[1])

(***************************************************************************)
(* Reply decoders.                                                         *)
(***************************************************************************)
\* characters the regular expression's . does not match
LineTerminators == {"\n", "\r"}

\* a variant whose pattern has no \s after the colon
MatchLineMut(line) ==
    LET c == IndexOf(line, <<":">>)
    IN  IF c > 1 /\ Len(line) >= c + 1
        THEN <<SubSeq(line, 1, c - 1), SubSeq(line, c + 1, Len(line))>>
        ELSE <<>>

\* line.match(/^([^:]+):\s(.+)$/): <<key, value>>, or <<>> for no match
MatchLine(line) ==
    LET c == IndexOf(line, <<":">>)
    IN  IF /\ c > 1
           /\ Len(line) >= c + 2
           /\ line[c + 1] \in Whitespace
           /\ \A i \in (c + 2)..Len(line) : line[i] \notin LineTerminators
        THEN <<SubSeq(line, 1, c - 1), SubSeq(line, c + 2, Len(line))>>
        ELSE <<>>

\* the one key of a plain object that is an accessor inherited from
\* Object.prototype
ProtoKey == <<"_", "_", "p", "r", "o", "t", "o", "_", "_">>

\* result[key] = value on a plain object {} (a function from its own keys to
\* values): an own property is written, except for the key __proto__, whose
\* inherited setter ignores a value that is neither an object nor null
SetField(rec, key, value) ==
    IF key = ProtoKey THEN rec
    ELSE [k \in (DOMAIN rec) \cup {key} |-> IF k = key THEN value ELSE rec[k]]

\* the record with no field: {}
EmptyRecord == [k \in {} |-> <<>>]

\* data.key, Undefined when the record has no such property
Get(rec, key) == IF key \in DOMAIN rec THEN rec[key] ELSE Undefined

\* the loop of parseResponse over the lines
RECURSIVE parseLines(_, _)
parseLines(lines, result) ==
    IF lines = <<>> THEN result
    ELSE LET m == MatchLine(Head(lines))
         IN  parseLines(Tail(lines),
                        IF m # <<>> THEN SetField(result, ToLowerCase(m[1]), m[2])
                        ELSE result)

\* MpdClientImpl.parseResponse
parseResponse(data) == parseLines(Split(data, <<"\n">>), EmptyRecord)

FileKey == <<"f", "i", "l", "e">>

\* the loop of parseArrayResponse: <<result, current>> after the lines
RECURSIVE parseArrayLines(_, _, _)
parseArrayLines(lines, result, current) ==
    IF lines = <<>> THEN <<result, current>>
    ELSE LET m == MatchLine(Head(lines))
         IN  IF m = <<>> THEN parseArrayLines(Tail(lines), result, current)
             ELSE LET lcKey == ToLowerCase(m[1])
                      flush == lcKey = FileKey /\ DOMAIN current # {}
                  IN  parseArrayLines(Tail(lines),
                          IF flush THEN Append(result, current) ELSE result,
                          SetField(IF flush THEN EmptyRecord ELSE current, lcKey, m[2]))

\* MpdClientImpl.parseArrayResponse
parseArrayResponse(data) ==
    LET r == parseArrayLines(Split(data, <<"\n">>), <<>>, EmptyRecord)
    IN  IF DOMAIN r[2] # {} THEN Append(r[1], r[2]) ELSE r[1]

(***************************************************************************)
(* Numbers (JavaScript parseInt / parseFloat / Number.prototype.toString). *)
(* A number is <<"num", negative, integer part, fraction digits>>.         *)
(***************************************************************************)
NaN == <<"NaN">>

Num(neg, int, frac) == <<"num", neg, int, frac>>

Digits == <<"0", "1", "2", "3", "4", "5", "6", "7", "8", "9">>

IsDigit(c) == \E d \in 1..10 : Digits[d] = c

DigitValue(c) == (CHOOSE d \in 1..10 : Digits[d] = c) - 1

\* the longest prefix of s made of digits
RECURSIVE DigitPrefix(_)
DigitPrefix(s) ==
    IF s # <<>> /\ IsDigit(Head(s)) THEN <<Head(s)>> \o DigitPrefix(Tail(s)) ELSE <<>>

\* the value of a sequence of digits
RECURSIVE DigitsValue(_)
DigitsValue(ds) ==
    IF ds = <<>> THEN 0
    ELSE 10 * DigitsValue(SubSeq(ds, 1, Len(ds) - 1)) + DigitValue(ds[Len(ds)])

\* s without its leading white space
RECURSIVE TrimStart(_)
TrimStart(s) == IF s # <<>> /\ Head(s) \in Whitespace THEN TrimStart(Tail(s)) ELSE s

\* ds without its trailing zeros
RECURSIVE StripZeros(_)
StripZeros(ds) ==
    IF ds # <<>> /\ ds[Len(ds)] = "0" THEN StripZeros(SubSeq(ds, 1, Len(ds) - 1)) ELSE ds

\* parseInt(s, 10)
parseInt(s) ==
    LET t    == TrimStart(s)
        neg  == t # <<>> /\ Head(t) = "-"
        body == IF t # <<>> /\ Head(t) \in {"-", "+"} THEN Tail(t) ELSE t
        ds   == DigitPrefix(body)
    IN  IF ds = <<>> THEN NaN ELSE Num(neg /\ DigitsValue(ds) # 0, DigitsValue(ds), <<>>)

\* parseFloat(s), for decimal literals without an exponent
parseFloat(s) ==
    LET t    == TrimStart(s)
        neg  == t # <<>> /\ Head(t) = "-"
        body == IF t # <<>> /\ Head(t) \in {"-", "+"} THEN Tail(t) ELSE t
        ds   == DigitPrefix(body)
        rest == SubSeq(body, Len(ds) + 1, Len(body))
        fs   == IF rest # <<>> /\ Head(rest) = "." THEN DigitPrefix(Tail(rest)) ELSE <<>>
    IN  IF ds = <<>> /\ fs = <<>> THEN NaN
        ELSE Num(neg /\ (DigitsValue(ds) # 0 \/ StripZeros(fs) # <<>>),
                 DigitsValue(ds), StripZeros(fs))

\* n.toString() for an integer n
RECURSIVE NatToString(_)
NatToString(n) ==
    IF n < 10 THEN <<Digits[n + 1]>> ELSE NatToString(n \div 10) \o <<Digits[(n % 10) + 1]>>

toString(n) == IF n < 0 THEN <<"-">> \o NatToString(0 - n) ELSE NatToString(n)

(***************************************************************************)
(* Entity mapping.                                                         *)
(***************************************************************************)
\* MpdClientImpl.convertToMpdSong
convertToMpdSong(data) ==
    [file     |-> Get(data, FileKey),
     artist   |-> Get(data, <<"a", "r", "t", "i", "s", "t">>),
     album    |-> Get(data, <<"a", "l", "b", "u", "m">>),
     title    |-> Get(data, <<"t", "i", "t", "l", "e">>),
     track    |-> Get(data, <<"t", "r", "a", "c", "k">>),
     duration |-> IF Get(data, <<"d", "u", "r", "a", "t", "i", "o", "n">>) # Undefined
                  THEN parseFloat(Get(data, <<"d", "u", "r", "a", "t", "i", "o", "n">>))
                  ELSE Undefined,
     pos      |-> IF Get(data, <<"p", "o", "s">>) # Undefined
                  THEN parseInt(Get(data, <<"p", "o", "s">>)) ELSE Undefined,
     id       |-> IF Get(data, <<"i", "d">>) # Undefined
                  THEN parseInt(Get(data, <<"i", "d">>)) ELSE Undefined,
     time     |-> Get(data, <<"t", "i", "m", "e">>)]

\* parsed.map((item) => this.convertToMpdSong(item))
MapSongs(parsed) == [i \in 1..Len(parsed) |-> convertToMpdSong(parsed[i])]

\* the value null
Null == [null |-> TRUE]

\* the entity status() builds from the decoded reply
statusOf(parsed) ==
    [volume |-> parseInt(Get(parsed, <<"v", "o", "l", "u", "m", "e">>)),
     repeat |-> Get(parsed, <<"r", "e", "p", "e", "a", "t">>) = <<"1">>,
     random |-> Get(parsed, <<"r", "a", "n", "d", "o", "m">>) = <<"1">>,
     single |-> Get(parsed, <<"s", "i", "n", "g", "l", "e">>) = <<"1">>,
     consume |-> Get(parsed, <<"c", "o", "n", "s", "u", "m", "e">>) = <<"1">>,
     playlist |-> parseInt(Get(parsed, <<"p", "l", "a", "y", "l", "i", "s", "t">>)),
     playlistlength |-> parseInt(Get(parsed, <<"p", "l", "a", "y", "l", "i", "s", "t", "l", "e", "n", "g", "t", "h">>)),
     mixrampdb |-> parseFloat(Get(parsed, <<"m", "i", "x", "r", "a", "m", "p", "d", "b">>)),
     state |-> Get(parsed, <<"s", "t", "a", "t", "e">>),
     song |-> IF Get(parsed, <<"s", "o", "n", "g">>) # Undefined THEN parseInt(Get(parsed, <<"s", "o", "n", "g">>)) ELSE Undefined,
     songid |-> IF Get(parsed, <<"s", "o", "n", "g", "i", "d">>) # Undefined THEN parseInt(Get(parsed, <<"s", "o", "n", "g", "i", "d">>)) ELSE Undefined,
     time |-> Get(parsed, <<"t", "i", "m", "e">>),
     elapsed |-> IF Get(parsed, <<"e", "l", "a", "p", "s", "e", "d">>) # Undefined THEN parseFloat(Get(parsed, <<"e", "l", "a", "p", "s", "e", "d">>)) ELSE Undefined,
     bitrate |-> IF Get(parsed, <<"b", "i", "t", "r", "a", "t", "e">>) # Undefined THEN parseInt(Get(parsed, <<"b", "i", "t", "r", "a", "t", "e">>)) ELSE Undefined,
     duration |-> IF Get(parsed, <<"d", "u", "r", "a", "t", "i", "o", "n">>) # Undefined THEN parseFloat(Get(parsed, <<"d", "u", "r", "a", "t", "i", "o", "n">>)) ELSE Undefined,
     audio |-> Get(parsed, <<"a", "u", "d", "i", "o">>),
     nextsong |-> IF Get(parsed, <<"n", "e", "x", "t", "s", "o", "n", "g">>) # Undefined THEN parseInt(Get(parsed, <<"n", "e", "x", "t", "s", "o", "n", "g">>)) ELSE Undefined,
     nextsongid |-> IF Get(parsed, <<"n", "e", "x", "t", "s", "o", "n", "g", "i", "d">>) # Undefined THEN parseInt(Get(parsed, <<"n", "e", "x", "t", "s", "o", "n", "g", "i", "d">>)) ELSE Undefined]

\* the entity stats() builds from the decoded reply
statsOf(parsed) ==
    [artists |-> parseInt(Get(parsed, <<"a", "r", "t", "i", "s", "t", "s">>)),
     albums |-> parseInt(Get(parsed, <<"a", "l", "b", "u", "m", "s">>)),
     songs |-> parseInt(Get(parsed, <<"s", "o", "n", "g", "s">>)),
     uptime |-> parseInt(Get(parsed, <<"u", "p", "t", "i", "m", "e">>)),
     db_playtime |-> parseInt(Get(parsed, <<"d", "b", "_", "p", "l", "a", "y", "t", "i", "m", "e">>)),
     db_update |-> parseInt(Get(parsed, <<"d", "b", "_", "u", "p", "d", "a", "t", "e">>)),
     playtime |-> parseInt(Get(parsed, <<"p", "l", "a", "y", "t", "i", "m", "e">>))]

\* the entries listPlaylists() builds from the decoded reply
playlistsOf(parsed) ==
    [i \in 1..Len(parsed) |->
        [playlist     |-> Get(parsed[i], <<"p", "l", "a", "y", "l", "i", "s", "t">>),
         lastModified |-> Get(parsed[i], <<"l", "a", "s", "t", "-", "m", "o", "d", "i", "f", "i", "e", "d">>)]]

\* what currentSong() returns for the reply text
currentSongOf(response) ==
    IF response = <<>> THEN Null
    ELSE IF DOMAIN parseResponse(response) = {} THEN Null
    ELSE convertToMpdSong(parseResponse(response))

(***************************************************************************)
(* Protocol words and the commands built from them.                        *)
(***************************************************************************)
SEARCH == <<"s", "e", "a", "r", "c", "h">>
FIND   == <<"f", "i", "n", "d">>
ADD    == <<"a", "d", "d">>
PLAY   == <<"p", "l", "a", "y">>
SETVOL == <<"s", "e", "t", "v", "o", "l">>
PAUSE == <<"p", "a", "u", "s", "e">>
STOP == <<"s", "t", "o", "p">>
NEXT == <<"n", "e", "x", "t">>
PREVIOUS == <<"p", "r", "e", "v", "i", "o", "u", "s">>
SEEK == <<"s", "e", "e", "k">>
REPEAT == <<"r", "e", "p", "e", "a", "t">>
RANDOM == <<"r", "a", "n", "d", "o", "m">>
SINGLE == <<"s", "i", "n", "g", "l", "e">>
CONSUME == <<"c", "o", "n", "s", "u", "m", "e">>
DELETE == <<"d", "e", "l", "e", "t", "e">>
CLEAR == <<"c", "l", "e", "a", "r">>
LISTALLINFO == <<"l", "i", "s", "t", "a", "l", "l", "i", "n", "f", "o">>
STATUS == <<"s", "t", "a", "t", "u", "s">>
CURRENTSONG == <<"c", "u", "r", "r", "e", "n", "t", "s", "o", "n", "g">>
STATS == <<"s", "t", "a", "t", "s">>
PLAYLISTINFO == <<"p", "l", "a", "y", "l", "i", "s", "t", "i", "n", "f", "o">>
LISTPLAYLISTS == <<"l", "i", "s", "t", "p", "l", "a", "y", "l", "i", "s", "t", "s">>

TITLE  == <<"t", "i", "t", "l", "e">>
ARTIST == <<"a", "r", "t", "i", "s", "t">>
ANY    == <<"a", "n", "y">>

Quoted(s) == <<"\"">> \o s \o <<"\"">>

\* `search "${type}" "${q.replace(/"/g, '\\"')}"`
SearchCommand(type, q) ==
    SEARCH \o <<" ">> \o Quoted(type) \o <<" ">> \o Quoted(EscapeQuotes(q))

\* `add "${uri.replace(/"/g, '\\"')}"`
AddCommand(uri) == ADD \o <<" ">> \o Quoted(EscapeQuotes(uri))

(***************************************************************************)
(* The session, its callers and the transport.                             *)
(***************************************************************************)
\* the asynchronous callers of one MpdClientImpl
Callers == {"c1", "c2"}

\* connections MPD.connect may open in one behaviour
MaxConnections == 2

VARIABLES
    connected,  \* this.connected
    client,     \* this.client: 0 for undefined, else the handle MPD.connect gave
    opened,     \* number of connections MPD.connect has opened (handles 1..opened)
    closed,     \* handles whose close() has completed
    lost,       \* handles whose transport has failed
    daemon,     \* what the daemon holds: the mode flags, the queue, the playback state
    server,     \* the MCP server: its process and the request handler of each caller
    pc,         \* per caller: "idle", "await", "connecting", "closing", "recurse", "done"
    call,       \* per caller: the operation invoked and its arguments
    frame,      \* per caller: where the suspended operation continues
    trace,      \* per caller: the attempts of the current operation, in order
    result,     \* per caller: what the operation returned or threw
    inflight    \* callers whose sendCommand awaits its reply, oldest first

vars == <<connected, client, opened, closed, lost, daemon, server, pc, call, frame, trace, result, inflight>>

session == <<connected, client, opened, closed>>

\* outcomes of one sendCommand
Pending     == [kind |-> "pending", text |-> <<>>, error |-> "none"]
OkOut(text) == [kind |-> "ok", text |-> text, error |-> "none"]
ErrOut(e)   == [kind |-> "err", text |-> <<>>, error |-> e]

\* what an operation gave its caller
NoResult        == [kind |-> "none", error |-> "none", songs |-> <<>>, value |-> <<>>]
OkResult(songs) == [kind |-> "ok", error |-> "none", songs |-> songs, value |-> <<>>]
ErrResult(e)    == [kind |-> "err", error |-> e, songs |-> <<>>, value |-> <<>>]

\* an operation that returned a value other than a list of songs
OkValue(v) == [kind |-> "ok", error |-> "none", songs |-> <<>>, value |-> v]

NoCall  == [name |-> "none", type |-> <<>>, text |-> <<>>, num |-> 0, hasNum |-> FALSE,
            num2 |-> 0, flag |-> FALSE]
\* a request to the server: a tool call or a resource read with its arguments
NoRequest ==
    [kind |-> "none", name |-> "none", action |-> "none", type |-> <<>>, hasType |-> FALSE,
     query |-> <<>>, hasQuery |-> FALSE, uri |-> <<>>, hasUri |-> FALSE,
     position |-> 0, hasPosition |-> FALSE]

\* the handler of a request: where it is, the songs it found, the client
\* operations it has invoked, the commands they sent, and its answer
NoHandler ==
    [req |-> NoRequest, stage |-> "idle", results |-> <<>>, idx |-> 0,
     ops |-> <<>>, cmds |-> <<>>, queue0 |-> <<>>, state0 |-> "stop",
     conn0 |-> FALSE,
     answer |-> [kind |-> "none", msg |-> <<>>]]

\* the server before main() has run
ServerIdle ==
    [running |-> TRUE, code |-> 0, exitBy |-> "none", main |-> FALSE, served |-> 0,
     disconnects |-> 0, h |-> [p \in Callers |-> NoHandler]]

NoFrame == [level |-> 0, type |-> <<>>, step |-> "none", saved |-> "none"]

\* the guard of cmd(): connected and a client object
cmdGuard == connected /\ client # 0

\* cmd(command, args): thrown NotConnected, or handed to this.client.sendCommand
cmdAttempt(level, step, command, args) ==
    [level |-> level, step |-> step, enc |-> "array", cmd |-> command, args |-> args,
     conn |-> connected,
     handle |-> IF cmdGuard THEN client ELSE 0,
     out |-> IF cmdGuard THEN Pending ELSE ErrOut("NotConnected")]

\* this.client.sendCommand(text): a TypeError when this.client is undefined
directAttempt(level, step, text) ==
    [level |-> level, step |-> step, enc |-> "string", cmd |-> text, args |-> <<>>,
     conn |-> connected,
     handle |-> client,
     out |-> IF client = 0 THEN ErrOut("TypeError") ELSE Pending]

\* an attempt that reached the transport
Sent(a) == a.handle # 0

\* the next local state of a caller
Await(fr, tr)     == [next |-> "await", frame |-> fr, trace |-> tr, result |-> NoResult]
Done(fr, tr, res) == [next |-> "done", frame |-> fr, trace |-> tr, result |-> res]

(***************************************************************************)
(* search(type, query): the cascade.                                       *)
(***************************************************************************)
\* a variant that never stops at a non-empty result
hasResultsMut(results) == FALSE

\* results.length > 0
hasResults(results) == Len(results) > 0

\* a variant that does not ask whether normalization changed the query
titleFallbackCondMut(type, query) == type = TITLE /\ Includes(query, <<"(">>)

\* the condition of the second try
titleFallbackCond(type, query) ==
    type = TITLE /\ processSearchQuery(query) # query /\ Includes(query, <<"(">>)

\* a variant that broadens whatever the type
shouldBroadenMut(type) == TRUE

\* the condition of the last resort: type !== "any"
shouldBroaden(type) == type # ANY

\* a variant that recurses with the requested type
broadenedTypeMut(type) == type

\* the field type of the recursive call: this.search("any", query)
broadenedType(type) == ANY

\* a variant that throws when nothing was found
arrayReturnMut(results) ==
    IF Len(results) = 0 THEN ErrResult("NoResults") ELSE OkResult(results)

\* the return of the third try
arrayReturn(results) == OkResult(results)

\* the catch block: recurse into search("any", query), or return []
searchCatch(fr, tr) ==
    IF shouldBroaden(fr.type)
    THEN [next |-> "recurse", frame |-> fr, trace |-> tr, result |-> NoResult]
    ELSE Done(fr, tr, OkResult(<<>>))

\* entry of search(type, query) up to its first await
searchEnter(level, type, query, tr) ==
    LET a  == directAttempt(level, "primary",
                            SearchCommand(type, processSearchQuery(query)))
        fr == [level |-> level, type |-> type, step |-> "primary", saved |-> "none"]
    IN  IF Sent(a) THEN Await(fr, Append(tr, a)) ELSE searchCatch(fr, Append(tr, a))

\* the second try: the simplified title, sent as a string
searchTitle(fr, query, tr) ==
    LET a   == directAttempt(fr.level, "title",
                             SearchCommand(fr.type, simplifiedQuery(query)))
        fr2 == [fr EXCEPT !.step = "title"]
    IN  IF Sent(a) THEN Await(fr2, Append(tr, a)) ELSE searchCatch(fr2, Append(tr, a))

\* the third try: the array approach through cmd()
searchArray(fr, query, tr) ==
    LET a   == cmdAttempt(fr.level, "array", SEARCH, <<fr.type, processSearchQuery(query)>>)
        fr2 == [fr EXCEPT !.step = "array"]
    IN  IF Sent(a) THEN Await(fr2, Append(tr, a)) ELSE searchCatch(fr2, Append(tr, a))

\* search continues after the reply `out` to its pending command
searchReply(fr, query, tr, out) ==
    IF out.kind = "err" THEN searchCatch(fr, tr)
    ELSE LET results == MapSongs(parseArrayResponse(out.text))
         IN  CASE fr.step = "primary" ->
                    IF hasResults(results) THEN Done(fr, tr, OkResult(results))
                    ELSE IF titleFallbackCond(fr.type, query) THEN searchTitle(fr, query, tr)
                    ELSE searchArray(fr, query, tr)
               [] fr.step = "title" ->
                    IF hasResults(results) THEN Done(fr, tr, OkResult(results))
                    ELSE searchArray(fr, query, tr)
               [] OTHER -> Done(fr, tr, arrayReturn(results))

(***************************************************************************)
(* playlistAdd(uri): the array approach, then the string approach.         *)
(***************************************************************************)
\* the catch block of playlistAdd: the direct string command
addFallback(uri, tr, error) ==
    LET a  == directAttempt(0, "string", AddCommand(uri))
        fr == [NoFrame EXCEPT !.step = "string", !.saved = error]
    IN  IF Sent(a) THEN Await(fr, Append(tr, a))
        ELSE Done(fr, Append(tr, a), ErrResult(error))

addEnter(uri, tr) ==
    LET a  == cmdAttempt(0, "array", ADD, <<uri>>)
        fr == [NoFrame EXCEPT !.step = "array"]
    IN  IF Sent(a) THEN Await(fr, Append(tr, a))
        ELSE addFallback(uri, Append(tr, a), a.out.error)

addReply(fr, uri, tr, out) ==
    IF fr.step = "array"
    THEN IF out.kind = "ok" THEN Done(fr, tr, OkResult(<<>>))
         ELSE addFallback(uri, tr, out.error)
    ELSE IF out.kind = "ok" THEN Done(fr, tr, OkResult(<<>>))
         ELSE Done(fr, tr, ErrResult(fr.saved))

(***************************************************************************)
(* Operations that are one cmd() call.                                     *)
(***************************************************************************)
\* a variant that rounds to the nearest integer instead of flooring
clampVolumeMut(halves) ==
    LET round == (halves + 1) \div 2
        low   == IF round < 100 THEN round ELSE 100
    IN  IF low > 0 THEN low ELSE 0

\* Math.max(0, Math.min(100, Math.floor(volume))), the volume given in halves
clampVolume(halves) ==
    LET floor == halves \div 2
        low   == IF floor < 100 THEN floor ELSE 100
    IN  IF low > 0 THEN low ELSE 0

\* a variant in which find goes through the search command
cmdWordMut(c) ==
    CASE c.name = "play" -> PLAY
      [] c.name = "setVolume" -> SETVOL
      [] OTHER -> SEARCH

\* the command word each operation passes to cmd()
cmdWord(c) ==
    CASE c.name = "play" -> PLAY
      [] c.name = "pause" -> PAUSE
      [] c.name = "stop" -> STOP
      [] c.name = "next" -> NEXT
      [] c.name = "previous" -> PREVIOUS
      [] c.name = "seek" -> SEEK
      [] c.name = "setVolume" -> SETVOL
      [] c.name = "setRepeat" -> REPEAT
      [] c.name = "setRandom" -> RANDOM
      [] c.name = "setSingle" -> SINGLE
      [] c.name = "setConsume" -> CONSUME
      [] c.name = "playlistDelete" -> DELETE
      [] c.name = "playlistClear" -> CLEAR
      [] c.name = "listAllInfo" -> LISTALLINFO
      [] c.name = "status" -> STATUS
      [] c.name = "currentSong" -> CURRENTSONG
      [] c.name = "stats" -> STATS
      [] c.name = "playlistInfo" -> PLAYLISTINFO
      [] c.name = "listPlaylists" -> LISTPLAYLISTS
      [] OTHER -> FIND

\* a variant with the two arguments exchanged
flagArgMut(flag) == IF flag THEN <<"0">> ELSE <<"1">>

\* flag ? "1" : "0"
flagArg(flag) == IF flag THEN <<"1">> ELSE <<"0">>

\* the arguments each operation passes to cmd()
cmdArgs(c) ==
    CASE c.name = "play" -> IF c.hasNum THEN <<toString(c.num)>> ELSE <<>>
      [] c.name = "pause" -> << <<"1">> >>
      [] c.name \in {"stop", "next", "previous", "playlistClear", "status", "currentSong",
                     "stats", "playlistInfo", "listPlaylists"} -> <<>>
      [] c.name = "seek" -> <<toString(c.num), toString(c.num2)>>
      [] c.name = "setVolume" -> <<toString(clampVolume(c.num))>>
      [] c.name \in {"setRepeat", "setRandom", "setSingle", "setConsume"} -> <<flagArg(c.flag)>>
      [] c.name = "playlistDelete" -> <<toString(c.num)>>
      [] c.name = "listAllInfo" -> IF c.text # <<>> THEN <<c.text>> ELSE <<>>
      [] OTHER -> <<c.type, c.text>>

\* parsed.filter((item) => item.file): the records with a truthy file
WithFile(parsed) == SelectSeq(parsed, LAMBDA item : Get(item, FileKey) # Undefined)

\* what the operation returns for the reply text
cmdResult(c, text) ==
    CASE c.name \in {"find", "playlistInfo"} -> OkResult(MapSongs(parseArrayResponse(text)))
      [] c.name = "status" -> OkValue(statusOf(parseResponse(text)))
      [] c.name = "stats" -> OkValue(statsOf(parseResponse(text)))
      [] c.name = "currentSong" -> OkValue(currentSongOf(text))
      [] c.name = "listPlaylists" -> OkValue(playlistsOf(parseArrayResponse(text)))
      [] c.name = "listAllInfo" -> OkResult(MapSongs(WithFile(parseArrayResponse(text))))
      [] OTHER -> OkResult(<<>>)

opEnter(c, tr) ==
    LET a  == cmdAttempt(0, "cmd", cmdWord(c), cmdArgs(c))
        fr == [NoFrame EXCEPT !.step = "cmd"]
    IN  IF Sent(a) THEN Await(fr, Append(tr, a))
        ELSE Done(fr, Append(tr, a), ErrResult(a.out.error))

opReply(fr, c, tr, out) ==
    IF out.kind = "ok" THEN Done(fr, tr, cmdResult(c, out.text))
    ELSE Done(fr, tr, ErrResult(out.error))

(***************************************************************************)
(* Inputs and the transport's answers.                                     *)
(***************************************************************************)
RECURSIVE SeqsOfLen(_, _)
SeqsOfLen(S, n) ==
    IF n = 0 THEN {<<>>}
    ELSE {Append(q, c) : q \in SeqsOfLen(S, n - 1), c \in S}

\* every query over QueryAlphabet of length 1..MaxQLen
ShortQueries == UNION {SeqsOfLen(QueryAlphabet, n) : n \in 1..MaxQLen}

\* decorated queries longer than MaxQLen
SampleQueries ==
    { <<"a", " ", "-", " ", "b", " ", "(", "c", ")">>,       \* Artist - Title (Album)
      <<"b", " ", "(", "c", ")">>,                           \* Title (Decoration)
      <<"a", " ", "-", " ", "b", "(", "c">>,                 \* ( not after a space
      <<"(", "a", " ", "-", " ", "b", " ", " ", "(", "c">>,  \* ( before the separator
      <<"a", " ", "-", " ", "b", " ", "-", " ", "(", "c">>,  \* two separators
      <<"a", "\"", " ", "-", " ", "b", "\"", " ", "(">> }    \* double quotes

\* characters with a meaning inside a quoted argument, and an ordinary one
QuoteAlphabet == {"a", "\"", "\\", "\n"}

\* every query of one or two characters over QuoteAlphabet
QuoteQueries == SeqsOfLen(QuoteAlphabet, 1) \cup SeqsOfLen(QuoteAlphabet, 2)

SearchQueries == ShortQueries \cup SampleQueries \cup QuoteQueries

SearchTypes == {TITLE, ARTIST, ANY}

\* reply texts: "", "x" (no Key: Value line), "file: a", two songs
ReplyEmpty == <<>>
ReplyJunk  == <<"x">>
ReplyOne   == <<"f", "i", "l", "e", ":", " ", "a">>
ReplyTwo   == <<"f", "i", "l", "e", ":", " ", "a", "\n", "T", "i", "t", "l", "e", ":", " ", "t",
                "\n", "f", "i", "l", "e", ":", " ", "b">>

SearchReplies == {ReplyEmpty, ReplyJunk, ReplyOne, ReplyTwo}

\* the inputs of the two-caller specification
SessionQueries == { <<"a">> }
SessionTypes   == {ARTIST, ANY}
SessionReplies == {ReplyEmpty, ReplyOne}
Uris           == { <<"u">> }
VolumeHalves   == {0 - 20, 101, 220}
Positions      == {0}

\* how the transport settles a sendCommand: a reply text, an ACK error from the
\* daemon, or the loss of the connection
Outcomes(texts) ==
    {OkOut(t) : t \in texts} \cup {ErrOut("CommandRejected"), ErrOut("ConnectionLost")}

(***************************************************************************)
(* Actions.                                                                *)
(***************************************************************************)
Ready(p) == pc[p] \in {"idle", "done"}

\* no caller is inside a synchronous section
NoSync == \A r \in Callers : pc[r] # "recurse"

Apply(p, R, infl) ==
    /\ pc' = [pc EXCEPT ![p] = R.next]
    /\ frame' = [frame EXCEPT ![p] = R.frame]
    /\ trace' = [trace EXCEPT ![p] = R.trace]
    /\ result' = [result EXCEPT ![p] = R.result]
    /\ inflight' = IF R.next = "await" THEN Append(infl, p) ELSE infl

\* a variant of connect() without its first line
alreadyConnectedMut == FALSE

\* if (this.connected) return;
alreadyConnected == connected

\* the body of connect(), up to `await MPD.connect(...)`
connectEnter(p) ==
    IF alreadyConnected
    THEN Apply(p, Done(NoFrame, <<>>, OkResult(<<>>)), inflight)
    ELSE /\ opened + Cardinality({r \in Callers : pc[r] = "connecting"}) < MaxConnections
         /\ pc' = [pc EXCEPT ![p] = "connecting"]
         /\ frame' = [frame EXCEPT ![p] = [NoFrame EXCEPT !.step = "connect"]]
         /\ trace' = [trace EXCEPT ![p] = <<>>]
         /\ result' = [result EXCEPT ![p] = NoResult]
         /\ UNCHANGED inflight

\* connect(), up to `await MPD.connect(...)`
CallConnect(p) ==
    /\ Ready(p) /\ NoSync
    /\ call' = [call EXCEPT ![p] = [NoCall EXCEPT !.name = "connect"]]
    /\ connectEnter(p)
    /\ UNCHANGED <<session, lost, daemon, server>>

\* ensureConnected() of the server: connect() unless the flag is set
CallEnsureConnected(p) ==
    /\ Ready(p) /\ NoSync
    /\ call' = [call EXCEPT ![p] = [NoCall EXCEPT !.name = "ensureConnected"]]
    /\ IF ~connected THEN connectEnter(p)
       ELSE Apply(p, Done(NoFrame, <<>>, OkResult(<<>>)), inflight)
    /\ UNCHANGED <<session, lost, daemon, server>>

\* what a failed MPD.connect makes the caller see: connect() rethrows the
\* error, ensureConnected() wraps it in a new one
connectFailure(c) ==
    IF c.name = "ensureConnected" THEN ErrResult("FailedToConnect")
    ELSE ErrResult("ConnectFailed")

\* MPD.connect settles: connect() continues to its end
ConnectReply(p, ok) ==
    /\ pc[p] = "connecting" /\ NoSync
    /\ IF ok
       THEN /\ opened' = opened + 1
            /\ client' = opened + 1
            /\ connected' = TRUE
            /\ result' = [result EXCEPT ![p] = OkResult(<<>>)]
       ELSE /\ connected' = FALSE
            /\ result' = [result EXCEPT ![p] = connectFailure(call[p])]
            /\ UNCHANGED <<opened, client>>
    /\ pc' = [pc EXCEPT ![p] = "done"]
    /\ UNCHANGED <<closed, lost, daemon, server, call, frame, trace, inflight>>

\* disconnect(), up to `await this.client.close()`
CallDisconnect(p) ==
    /\ Ready(p) /\ NoSync
    /\ call' = [call EXCEPT ![p] = [NoCall EXCEPT !.name = "disconnect"]]
    /\ IF ~connected
       THEN Apply(p, Done(NoFrame, <<>>, OkResult(<<>>)), inflight)
       ELSE /\ pc' = [pc EXCEPT ![p] = "closing"]
            /\ frame' = [frame EXCEPT ![p] = [NoFrame EXCEPT !.step = "close"]]
            /\ trace' = [trace EXCEPT ![p] =
                  << [level |-> 0, step |-> "close", enc |-> "none", cmd |-> <<>>,
                      args |-> <<>>, conn |-> connected, handle |-> client,
                      out |-> Pending] >>]
            /\ result' = [result EXCEPT ![p] = NoResult]
            /\ UNCHANGED inflight
    /\ UNCHANGED <<session, lost, daemon, server>>

\* a variant of disconnect() that lets the failure of close() out
disconnectResultMut(ok) == IF ok THEN OkResult(<<>>) ELSE ErrResult("CloseFailed")

\* what disconnect() gives its caller: the catch block logs and returns
disconnectResult(ok) == OkResult(<<>>)

\* this.client.close() settles: disconnect() continues to its end
CloseReply(p, ok) ==
    /\ pc[p] = "closing" /\ NoSync
    /\ IF ok
       THEN /\ closed' = closed \cup {trace[p][1].handle}
            /\ connected' = FALSE
       ELSE UNCHANGED <<closed, connected>>
    /\ pc' = [pc EXCEPT ![p] = "done"]
    /\ result' = [result EXCEPT ![p] = disconnectResult(ok)]
    /\ UNCHANGED <<client, opened, lost, daemon, server, call, frame, trace, inflight>>

\* play(position?), setVolume(volume), find(type, query)
CallOp(p, c) ==
    /\ Ready(p) /\ NoSync
    /\ call' = [call EXCEPT ![p] = c]
    /\ Apply(p, opEnter(c, <<>>), inflight)
    /\ UNCHANGED <<session, lost, daemon, server>>

\* playlistAdd(uri)
CallPlaylistAdd(p, uri) ==
    /\ Ready(p) /\ NoSync
    /\ call' = [call EXCEPT ![p] = [NoCall EXCEPT !.name = "playlistAdd", !.text = uri]]
    /\ Apply(p, addEnter(uri, <<>>), inflight)
    /\ UNCHANGED <<session, lost, daemon, server>>

\* search(type, query)
CallSearch(p, type, query) ==
    /\ Ready(p) /\ NoSync
    /\ call' = [call EXCEPT ![p] = [NoCall EXCEPT !.name = "search", !.type = type,
                                                  !.text = query]]
    /\ Apply(p, searchEnter(0, type, query, <<>>), inflight)
    /\ UNCHANGED <<session, lost, daemon, server>>

\* the recursive call this.search("any", query) of the catch block
Recurse(p) ==
    /\ pc[p] = "recurse"
    /\ Apply(p, searchEnter(frame[p].level + 1, broadenedType(frame[p].type), call[p].text,
                             trace[p]), inflight)
    /\ UNCHANGED <<session, lost, daemon, server, call>>

\* the handle the pending command of caller p was sent on
PendingHandle(p) == trace[p][Len(trace[p])].handle

\* the transport settles the oldest pending command of a connection (a closed
\* or failed connection answers nothing: its commands can only fail, and the
\* failure of the transport is the failure of the whole connection), and the
\* operation that awaits it continues to its next await or to its end
Deliver(p, out) ==
    /\ pc[p] = "await" /\ NoSync
    /\ PendingHandle(p) \in closed \cup lost => out = ErrOut("ConnectionLost")
    /\ lost' = IF out = ErrOut("ConnectionLost") /\ PendingHandle(p) \notin closed
               THEN lost \cup {PendingHandle(p)} ELSE lost
    /\ \E i \in 1..Len(inflight) :
          /\ inflight[i] = p
          /\ \A j \in 1..(i - 1) : PendingHandle(inflight[j]) # PendingHandle(p)
          /\ LET infl == SubSeq(inflight, 1, i - 1) \o SubSeq(inflight, i + 1, Len(inflight))
                 tr   == [trace[p] EXCEPT ![Len(trace[p])].out = out]
                 c    == call[p]
             IN  Apply(p, CASE c.name = "search" -> searchReply(frame[p], c.text, tr, out)
                            [] c.name = "playlistAdd" -> addReply(frame[p], c.text, tr, out)
                            [] OTHER -> opReply(frame[p], c, tr, out),
                       infl)
    /\ UNCHANGED <<session, call>>

\* the transport's answer to p's pending command, the daemon's state
\* untouched
Reply(p, out) == Deliver(p, out) /\ UNCHANGED <<daemon, server>>

\* the songs of the daemon's database
Library ==
    << [file |-> <<"a">>, artist |-> <<"r">>, title |-> <<"t">>],
       [file |-> <<"b">>, artist |-> <<"r">>, title |-> <<"u">>],
       [file |-> <<"c">>, artist |-> <<"s">>, title |-> <<"v">>] >>

\* a daemon that has just started: mode flags off, empty queue, stopped
DaemonDefault ==
    [repeat |-> FALSE, random |-> FALSE, single |-> FALSE, consume |-> FALSE,
     queue |-> <<>>, state |-> "stop"]

\* the argument that starts after the opening double quote at position i - 1
\* of a request line: a backslash makes the next character literal, a double
\* quote ends the argument
RECURSIVE readQuoted(_, _, _)
readQuoted(s, i, acc) ==
    IF i > Len(s) THEN [ok |-> FALSE, value |-> acc, next |-> i]
    ELSE IF s[i] = "\"" THEN [ok |-> TRUE, value |-> acc, next |-> i + 1]
    ELSE IF s[i] = "\\"
         THEN IF i + 1 > Len(s) THEN [ok |-> FALSE, value |-> acc, next |-> i]
              ELSE readQuoted(s, i + 2, Append(acc, s[i + 1]))
    ELSE readQuoted(s, i + 1, Append(acc, s[i]))

\* the quoted arguments of a request line from position i on; <<"?">> stands
\* for a line the daemon cannot read
RECURSIVE readArgs(_, _)
readArgs(s, i) ==
    IF i > Len(s) THEN <<>>
    ELSE IF i + 1 > Len(s) \/ s[i] # " " \/ s[i + 1] # "\"" THEN << <<"?">> >>
    ELSE LET a == readQuoted(s, i + 2, <<>>)
         IN  IF a.ok THEN <<a.value>> \o readArgs(s, a.next) ELSE << <<"?">> >>

\* the command word and the arguments the daemon reads from attempt a: as
\* given for a command sent with an argument list, read from the line for a
\* command sent as one string
daemonRequest(a) ==
    IF a.enc = "array" THEN [word |-> a.cmd, args |-> a.args]
    ELSE LET sp == IndexOf(a.cmd, <<" ">>)
         IN  IF sp = 0 THEN [word |-> a.cmd, args |-> <<>>]
             ELSE [word |-> SubSeq(a.cmd, 1, sp - 1), args |-> readArgs(a.cmd, sp)]

\* whether the daemon executes the request r or answers it with an error
daemonAccepts(d, r) ==
    /\ \A i \in 1..Len(r.args) : r.args[i] # <<"?">>
    /\ CASE r.word = ADD -> Len(r.args) = 1 /\ \E i \in 1..Len(Library) : Library[i].file = r.args[1]
         [] r.word = SEARCH -> Len(r.args) = 2
         [] r.word = PLAY -> r.args = <<>> \/ d.queue # <<>>
         [] r.word \in {CLEAR, STOP, PAUSE, NEXT, PREVIOUS, STATUS, CURRENTSONG, PLAYLISTINFO} -> TRUE
         [] r.word \in {REPEAT, RANDOM, SINGLE, CONSUME} -> Len(r.args) = 1
         [] OTHER -> FALSE

\* what the daemon holds after it has executed the command of attempt a
daemonStore(d, a) ==
    LET r == daemonRequest(a)
    IN  CASE r.word = REPEAT  -> [d EXCEPT !.repeat  = r.args[1] = <<"1">>]
          [] r.word = RANDOM  -> [d EXCEPT !.random  = r.args[1] = <<"1">>]
          [] r.word = SINGLE  -> [d EXCEPT !.single  = r.args[1] = <<"1">>]
          [] r.word = CONSUME -> [d EXCEPT !.consume = r.args[1] = <<"1">>]
          [] r.word = CLEAR   -> [d EXCEPT !.queue = <<>>, !.state = "stop"]
          [] r.word = ADD     -> [d EXCEPT !.queue = Append(d.queue, r.args[1])]
          [] r.word = PLAY    -> [d EXCEPT !.state = IF d.queue # <<>> THEN "play" ELSE d.state]
          [] r.word = STOP    -> [d EXCEPT !.state = "stop"]
          [] r.word = PAUSE   -> [d EXCEPT !.state = IF d.state = "play" THEN "pause" ELSE d.state]
          [] OTHER -> d

\* one line of the status reply: key, colon, space, 1 or 0
FlagLine(key, b) == key \o <<":", " ">> \o (IF b THEN <<"1">> ELSE <<"0">>)

\* the playback state as the status reply spells it
StateWord(st) ==
    CASE st = "play" -> <<"p", "l", "a", "y">>
      [] st = "pause" -> <<"p", "a", "u", "s", "e">>
      [] OTHER -> <<"s", "t", "o", "p">>

\* the status reply of a daemon holding d
StatusText(d) ==
    Join(<< <<"v", "o", "l", "u", "m", "e", ":", " ", "5", "0">>,
            FlagLine(REPEAT, d.repeat), FlagLine(RANDOM, d.random),
            FlagLine(SINGLE, d.single), FlagLine(CONSUME, d.consume),
            <<"s", "t", "a", "t", "e", ":", " ">> \o StateWord(d.state) >>)

\* the lines the daemon prints for a song of its database
SongText(sg) ==
    Join(<< <<"f", "i", "l", "e", ":", " ">> \o sg.file, <<"A", "r", "t", "i", "s", "t", ":", " ">> \o sg.artist,
            <<"T", "i", "t", "l", "e", ":", " ">> \o sg.title >>)

\* whether the song matches a search of field type for the text q: the field
\* contains q, letter case ignored
SongMatches(sg, type, q) ==
    LET has(v) == Includes(ToLowerCase(v), ToLowerCase(q))
    IN  CASE type = ARTIST -> has(sg.artist)
          [] type = TITLE -> has(sg.title)
          [] type = ANY -> has(sg.artist) \/ has(sg.title) \/ has(sg.file)
          [] OTHER -> FALSE

\* the song of the database with the given file
SongOfFile(f) == Library[CHOOSE i \in 1..Len(Library) : Library[i].file = f]

\* the songs the daemon prints, one after the other
SongsText(songs) == Join([i \in 1..Len(songs) |-> SongText(songs[i])])

\* the daemon's reply to the command of attempt a
daemonAnswer(d, a) ==
    LET r == daemonRequest(a)
    IN  CASE r.word = STATUS -> StatusText(d)
          [] r.word = SEARCH ->
                SongsText(SelectSeq(Library, LAMBDA sg : SongMatches(sg, r.args[1], r.args[2])))
          [] r.word = CURRENTSONG ->
                IF d.state # "stop" /\ d.queue # <<>> THEN SongText(SongOfFile(d.queue[1]))
                ELSE <<>>
          [] r.word = PLAYLISTINFO ->
                SongsText([i \in 1..Len(d.queue) |-> SongOfFile(d.queue[i])])
          [] OTHER -> <<>>

\* the daemon executes p's pending command and answers it, or rejects it
DaemonReply(p) ==
    /\ pc[p] = "await"
    /\ PendingHandle(p) \notin closed \cup lost
    /\ LET a == trace[p][Len(trace[p])]
       IN  IF daemonAccepts(daemon, daemonRequest(a))
           THEN /\ Deliver(p, OkOut(daemonAnswer(daemon, a)))
                /\ daemon' = daemonStore(daemon, a)
           ELSE /\ Deliver(p, ErrOut("CommandRejected"))
                /\ UNCHANGED daemon
    /\ UNCHANGED server

(***************************************************************************)
(* The MCP server: request handlers, main() and the signal handlers.       *)
(***************************************************************************)
ALBUM == <<"a", "l", "b", "u", "m">>

\* String(undefined)
UndefinedText == <<"u", "n", "d", "e", "f", "i", "n", "e", "d">>

\* String(request.params.arguments?.query)
QueryText(rq) == IF rq.hasQuery THEN rq.query ELSE UndefinedText

\* arguments?.type ? String(arguments.type) : "any"
TypeText(rq) == IF rq.hasType /\ rq.type # <<>> THEN rq.type ELSE ANY

\* String(request.params.arguments?.type) of the search_music tool
RawTypeText(rq) == IF rq.hasType THEN rq.type ELSE UndefinedText

\* query.split(" - ").pop()?.split(" (")[0] || query
simplifiedTitle(query) ==
    LET parts == Split(query, <<" ", "-", " ">>)
        part  == Split(parts[Len(parts)], <<" ", "(">>)[1]
    IN  IF part # <<>> THEN part ELSE query

\* query.split(" - ")[0].trim()
artistPart(query) == Trim(Split(query, <<" ", "-", " ">>)[1])

\* the invocations of client operations a handler makes
searchCall(type, q) == [NoCall EXCEPT !.name = "search", !.type = type, !.text = q]
addCall(uri)        == [NoCall EXCEPT !.name = "playlistAdd", !.text = uri]
opCall(name)        == [NoCall EXCEPT !.name = name]
playCall(n)         == [NoCall EXCEPT !.name = "play", !.hasNum = TRUE, !.num = n]

\* what a handler does next: throw, return, or await a client operation
fail(h, msg) ==
    [h |-> [h EXCEPT !.stage = "failed", !.answer = [kind |-> "err", msg |-> msg]],
     call |-> NoCall]
finish(h, msg) ==
    [h |-> [h EXCEPT !.stage = "finished", !.answer = [kind |-> "ok", msg |-> msg]],
     call |-> NoCall]
invoke(h, stage, c) == [h |-> [h EXCEPT !.stage = stage], call |-> c]

\* the stages in which a handler is not running
Resting == {"idle", "finished", "failed"}

\* the actions of the player tool (playback_control in server.ts, where
\* resume is called play) and the client operation of each
PlayerOps(tool) ==
    {IF tool = "player" THEN "resume" ELSE "play", "pause", "stop", "next", "previous"}
playerOp(action) == IF action \in {"resume", "play"} THEN "play" ELSE action

\* the client operation that reads a resource
resourceOp(name) ==
    CASE name = "status" -> "status"
      [] name = "current-song" -> "currentSong"
      [] name = "playlist" -> "playlistInfo"
      [] name = "stats" -> "stats"
      [] name = "library" -> "listAllInfo"
      [] OTHER -> "none"

\* if (!query): the query is the empty string
queryMissing(rq) == QueryText(rq) = <<>>

\* a variant whose error does not carry the name
unknownToolMut(name) == <<"Unknown tool">>

\* throw new Error(`Unknown tool: ${request.params.name}`)
unknownTool(name) == <<"Unknown tool", name>>

\* the tools of the switch that are modelled
KnownTools ==
    {"play", "search", "search_music", "player", "playback_control", "pause", "playlist",
     "playlist_manager"}

\* the switch of the handlers, entered after ensureConnected() has returned:
\* the resources, the tools play, search, player, pause and playlist, the
\* tools search_music, playback_control and playlist_manager of the earlier
\* server, and the default branch
dispatch(h) ==
    LET rq == h.req
    IN  IF rq.kind = "resource"
        THEN IF resourceOp(rq.name) = "none"
             THEN fail(h, <<"Error reading resource", rq.name, "Unknown resource", rq.name>>)
             ELSE invoke(h, "read", opCall(resourceOp(rq.name)))
        ELSE CASE rq.name = "play" ->
                    IF queryMissing(rq)
                    THEN fail(h, <<"Query is required - specify what you want to play">>)
                    ELSE invoke(h, "search1", searchCall(TypeText(rq), QueryText(rq)))
               [] rq.name = "search" ->
                    IF queryMissing(rq) THEN fail(h, <<"Search query is required">>)
                    ELSE invoke(h, "search", searchCall(TypeText(rq), QueryText(rq)))
               [] rq.name = "search_music" ->
                    IF RawTypeText(rq) = <<>> \/ queryMissing(rq)
                    THEN fail(h, <<"Search type and query are required">>)
                    ELSE invoke(h, "search", searchCall(RawTypeText(rq), QueryText(rq)))
               [] rq.name \in {"player", "playback_control"} ->
                    IF rq.action \in PlayerOps(rq.name)
                    THEN invoke(h, "action", opCall(playerOp(rq.action)))
                    ELSE fail(h, <<"Error executing command", rq.action,
                                   "Unknown action", rq.action>>)
               [] rq.name = "pause" -> invoke(h, "paused", opCall("pause"))
               [] rq.name \in {"playlist", "playlist_manager"} ->
                    CASE rq.action = "add" ->
                           IF ~rq.hasUri \/ rq.uri = <<>>
                           THEN fail(h, <<"Error managing playlist",
                                          "URI is required for add action">>)
                           ELSE invoke(h, "cleared", addCall(rq.uri))
                      [] rq.action = "delete" ->
                           IF ~rq.hasPosition
                           THEN fail(h, <<"Error managing playlist",
                                          "Position is required for delete action">>)
                           ELSE invoke(h, "cleared",
                                       [NoCall EXCEPT !.name = "playlistDelete",
                                                      !.hasNum = TRUE, !.num = rq.position])
                      [] rq.action = "clear" -> invoke(h, "cleared", opCall("playlistClear"))
                      [] OTHER -> fail(h, <<"Error managing playlist", "Unknown action",
                                            rq.action>>)
               [] OTHER -> fail(h, unknownTool(rq.name))

\* a variant that clears the queue although nothing was found
playNotFoundMut(h) == invoke(h, "clear", opCall("playlistClear"))

\* if (results.length === 0) return 'Could not find any music matching ...'
playNotFound(h) ==
    finish(h, <<"Could not find any music matching", "Try a different search term">>)

\* the play tool after one of its searches has returned
playSearched(h, n, results) ==
    LET q == QueryText(h.req)
    IN  IF results # <<>>
        THEN invoke([h EXCEPT !.results = results], "clear", opCall("playlistClear"))
        ELSE IF n = 1 /\ simplifiedTitle(q) # q
        THEN invoke(h, "search2", searchCall(TITLE, simplifiedTitle(q)))
        ELSE IF n <= 2 /\ Includes(q, <<" ", "-", " ">>)
        THEN invoke(h, "search3", searchCall(ARTIST, artistPart(q)))
        ELSE playNotFound(h)

\* a variant that adds the first result only, whatever the type
addsAllMut(h) == FALSE

\* if (type === "artist" || type === "album"): every result is added, not
\* only the first
addsAll(h) == TypeText(h.req) \in {ARTIST, ALBUM}

\* a variant of ensureConnected() that swallows the error of connect()
ensureFailedMut(res) == FALSE

\* ensureConnected() throws when connect() has thrown
ensureFailed(res) == res.kind = "err"

\* the continuation of a handler after the client operation it awaited has
\* settled with res
handlerNext(h, res) ==
    LET failed == res.kind = "err"
        tag    == res.error
    IN  CASE h.stage = "ensure" ->
                IF ensureFailed(res) THEN fail(h, <<"Failed to connect to MPD server">>)
                ELSE dispatch(h)
          [] h.stage = "read" ->
                IF failed THEN fail(h, <<"Error reading resource", h.req.name, tag>>)
                ELSE finish(h, <<"contents">>)
          [] h.stage = "action" ->
                IF failed THEN fail(h, <<"Error executing command", h.req.action, tag>>)
                ELSE invoke(h, "status", opCall("status"))
          [] h.stage = "status" ->
                IF failed THEN fail(h, <<"Error executing command", h.req.action, tag>>)
                ELSE finish(h, <<"Successfully executed", h.req.action>>)
          [] h.stage = "cleared" ->
                IF failed THEN fail(h, <<"Error managing playlist", tag>>)
                ELSE finish(h, <<"Playlist changed", h.req.action>>)
          [] h.stage = "paused" ->
                IF failed THEN fail(h, <<"Error pausing music", tag>>)
                ELSE finish(h, <<"Music playback paused.">>)
          [] h.stage = "search" ->
                IF failed THEN fail(h, <<"Error searching music", tag>>)
                ELSE finish(h, IF res.songs = <<>> THEN <<"No results found">> ELSE <<"Found">>)
          [] h.stage \in {"search1", "search2", "search3"} ->
                IF failed THEN fail(h, <<"Error playing music", tag>>)
                ELSE playSearched(h, CASE h.stage = "search1" -> 1 [] h.stage = "search2" -> 2
                                       [] OTHER -> 3, res.songs)
          [] h.stage = "clear" ->
                IF failed THEN fail(h, <<"Error playing music", tag>>)
                ELSE invoke([h EXCEPT !.idx = 1], IF addsAll(h) THEN "adds" ELSE "add1",
                            addCall(h.results[1].file))
          [] h.stage = "adds" ->
                IF h.idx < Len(h.results)
                THEN invoke([h EXCEPT !.idx = h.idx + 1], "adds",
                            addCall(h.results[h.idx + 1].file))
                ELSE invoke(h, "play0", playCall(0))
          [] h.stage = "add1" ->
                IF failed
                THEN fail(h, <<"Error playing music", "Could not add song to playlist", tag>>)
                ELSE invoke(h, "play0", playCall(0))
          [] h.stage = "play0" ->
                IF failed THEN fail(h, <<"Error playing music", tag>>)
                ELSE IF addsAll(h) THEN invoke(h, "current", opCall("currentSong"))
                ELSE finish(h, <<"Now playing">>)
          [] h.stage = "current" ->
                IF failed THEN fail(h, <<"Error playing music", tag>>)
                ELSE finish(h, <<"Now playing">>)
          [] OTHER -> finish(h, <<>>)

\* a handler whose awaited operation has settled: its continuation is queued
Runnable(p) == server.h[p].stage \notin Resting /\ pc[p] = "done"

\* no continuation is queued: the event loop takes the next event
Quiet == NoSync /\ \A p \in Callers : ~Runnable(p)

\* the commands of a trace that reached the transport
SentCommands(tr) == SelectSeq(tr, LAMBDA a : Sent(a) /\ a.step # "close")

\* the first statements of an operation, up to its first await
operationEnter(c) ==
    CASE c.name = "search" -> searchEnter(0, c.type, c.text, <<>>)
      [] c.name = "playlistAdd" -> addEnter(c.text, <<>>)
      [] OTHER -> opEnter(c, <<>>)

\* the body of disconnect(), up to `await this.client.close()`
disconnectEnter(p) ==
    IF ~connected
    THEN Apply(p, Done(NoFrame, <<>>, OkResult(<<>>)), inflight)
    ELSE /\ pc' = [pc EXCEPT ![p] = "closing"]
         /\ frame' = [frame EXCEPT ![p] = [NoFrame EXCEPT !.step = "close"]]
         /\ trace' = [trace EXCEPT ![p] =
               << [level |-> 0, step |-> "close", enc |-> "none", cmd |-> <<>>,
                   args |-> <<>>, conn |-> connected, handle |-> client,
                   out |-> Pending] >>]
         /\ result' = [result EXCEPT ![p] = NoResult]
         /\ UNCHANGED inflight

\* most requests the server handles in one behaviour
MaxRequests == 2

\* main(): the transport is connected, mpdClient.connect() is started in the
\* background
StartMain(p) ==
    /\ server.running /\ ~server.main /\ Ready(p) /\ NoSync
    /\ call' = [call EXCEPT ![p] = [NoCall EXCEPT !.name = "connect"]]
    /\ connectEnter(p)
    /\ server' = [server EXCEPT !.main = TRUE,
                                !.h[p] = [NoHandler EXCEPT !.req.kind = "main", !.stage = "main"]]
    /\ UNCHANGED <<session, lost, daemon>>

\* a tool call or a resource read arrives: the handler runs up to the await
\* inside ensureConnected()
StartRequest(p, rq) ==
    /\ server.running /\ server.main /\ Quiet
    /\ server.served < MaxRequests
    /\ server.h[p].stage \in Resting /\ Ready(p)
    /\ call' = [call EXCEPT ![p] = [NoCall EXCEPT !.name = "ensureConnected"]]
    /\ IF ~connected THEN connectEnter(p)
       ELSE Apply(p, Done(NoFrame, <<>>, OkResult(<<>>)), inflight)
    /\ server' = [server EXCEPT !.served = @ + 1,
                                !.h[p] = [NoHandler EXCEPT !.req = rq, !.stage = "ensure",
                             !.queue0 = daemon.queue, !.state0 = daemon.state,
                             !.conn0 = connected,
                             !.ops = IF ~connected
                                     THEN <<[call |-> opCall("connect"), conn |-> connected]>>
                                     ELSE <<>>]]
    /\ UNCHANGED <<session, lost, daemon>>

\* the disconnect() of caller p has returned with the connection still open,
\* or has thrown
closeFailed(p) ==
    \/ result[p].kind = "err"
    \/ trace[p] # <<>> /\ trace[p][1].handle \notin closed

\* a variant that exits with 1 when the disconnect did not succeed
sigintExitCodeMut(unclean) == IF unclean THEN 1 ELSE 0

\* process.exit(0) after the try/catch around disconnect(), whether or not
\* the disconnect succeeded
sigintExitCode(unclean) == 0

\* the continuation of a handler: it takes the result of the operation it
\* awaited and runs up to its next await, its return or its throw
HandlerStep(p) ==
    /\ server.running /\ Runnable(p) /\ NoSync
    /\ LET h0 == [server.h[p] EXCEPT !.cmds = @ \o SentCommands(trace[p])]
       IN  IF h0.stage = "sigint"
           THEN /\ server' = [server EXCEPT
                                 !.running = FALSE, !.exitBy = "SIGINT",
                                 !.code = sigintExitCode(closeFailed(p)),
                                 !.h[p] = [h0 EXCEPT !.stage = "finished"]]
                /\ UNCHANGED <<pc, call, frame, trace, result, inflight>>
           ELSE LET n == handlerNext(h0, result[p])
                IN  IF n.call.name = "none"
                    THEN /\ server' = [server EXCEPT !.h[p] = n.h]
                         /\ UNCHANGED <<pc, call, frame, trace, result, inflight>>
                    ELSE /\ server' = [server EXCEPT !.h[p] =
                                          [n.h EXCEPT !.ops = Append(@, [call |-> n.call,
                                                                         conn |-> connected])]]
                         /\ call' = [call EXCEPT ![p] = n.call]
                         /\ Apply(p, operationEnter(n.call), inflight)
    /\ UNCHANGED <<session, lost, daemon>>

\* SIGINT: the handler runs up to the await inside disconnect()
Sigint(p) ==
    /\ server.running /\ server.main /\ Quiet
    /\ server.h[p].stage \in Resting /\ Ready(p)
    /\ call' = [call EXCEPT ![p] = [NoCall EXCEPT !.name = "disconnect"]]
    /\ disconnectEnter(p)
    /\ server' = [server EXCEPT !.disconnects = @ + 1,
                                !.h[p] = [NoHandler EXCEPT !.req.kind = "signal", !.stage = "sigint"]]
    /\ UNCHANGED <<session, lost, daemon>>

\* SIGTERM: process.exit(0)
Sigterm ==
    /\ server.running /\ server.main /\ Quiet
    /\ server' = [server EXCEPT !.running = FALSE, !.code = 0, !.exitBy = "SIGTERM"]
    /\ UNCHANGED <<session, lost, daemon, pc, call, frame, trace, result, inflight>>

\* an event of the transport reaches the running process
Event(A) == server.running /\ Quiet /\ A

(***************************************************************************)
(* The session with two concurrent callers.                                *)
(***************************************************************************)
Init ==
    /\ connected = FALSE
    /\ client = 0
    /\ opened = 0
    /\ closed = {}
    /\ lost = {}
    /\ daemon = DaemonDefault
    /\ server = ServerIdle
    /\ pc = [p \in Callers |-> "idle"]
    /\ call = [p \in Callers |-> NoCall]
    /\ frame = [p \in Callers |-> NoFrame]
    /\ trace = [p \in Callers |-> <<>>]
    /\ result = [p \in Callers |-> NoResult]
    /\ inflight = <<>>

SessionOps ==
    {[NoCall EXCEPT !.name = "play"]}
    \cup {[NoCall EXCEPT !.name = "play", !.hasNum = TRUE, !.num = n] : n \in Positions}
    \cup {[NoCall EXCEPT !.name = "setVolume", !.hasNum = TRUE, !.num = h] : h \in VolumeHalves}
    \cup {[NoCall EXCEPT !.name = "find", !.type = t, !.text = q] :
              t \in SessionTypes, q \in SessionQueries}

Next ==
    \/ \E p \in Callers : CallConnect(p)
    \/ \E p \in Callers : CallEnsureConnected(p)
    \/ \E p \in Callers, ok \in BOOLEAN : ConnectReply(p, ok)
    \/ \E p \in Callers : CallDisconnect(p)
    \/ \E p \in Callers, ok \in BOOLEAN : CloseReply(p, ok)
    \/ \E p \in Callers, c \in SessionOps : CallOp(p, c)
    \/ \E p \in Callers, uri \in Uris : CallPlaylistAdd(p, uri)
    \/ \E p \in Callers, t \in SessionTypes, q \in SessionQueries : CallSearch(p, t, q)
    \/ \E p \in Callers : Recurse(p)
    \/ \E p \in Callers, out \in Outcomes(SessionReplies) : Reply(p, out)

Spec == Init /\ [][Next]_vars

(***************************************************************************)
(* The server: main() on c2, requests handled on c1, SIGINT handled on c2. *)
(***************************************************************************)
Tool(name) == [NoRequest EXCEPT !.kind = "tool", !.name = name]
Resource(name) == [NoRequest EXCEPT !.kind = "resource", !.name = name]
WithQuery(rq, q) == [rq EXCEPT !.hasQuery = TRUE, !.query = q]
WithType(rq, t) == [rq EXCEPT !.hasType = TRUE, !.type = t]
WithAction(rq, a) == [rq EXCEPT !.action = a]

ServerRequests ==
    { Tool("play"), WithQuery(Tool("play"), <<>>), WithQuery(Tool("play"), <<"r">>),
      Tool("search"), WithQuery(Tool("search"), <<>>), WithQuery(Tool("search"), <<"z">>),
      WithType(Tool("search_music"), ARTIST),
      WithQuery(WithType(Tool("search_music"), ARTIST), <<>>),
      Tool("bogus"),
      WithAction(Tool("player"), "stop"), WithAction(Tool("player"), "bogus"),
      WithAction(Tool("playback_control"), "bogus"),
      WithAction(Tool("playlist"), "clear"), WithAction(Tool("playlist_manager"), "bogus"),
      Resource("status"), Resource("bogus") }

NextServer ==
    \/ StartMain("c2")
    \/ \E rq \in ServerRequests : StartRequest("c1", rq)
    \/ \E p \in Callers : HandlerStep(p)
    \/ \E p \in Callers : Recurse(p)
    \/ \E p \in Callers, ok \in BOOLEAN : Event(ConnectReply(p, ok))
    \/ \E p \in Callers : Event(DaemonReply(p))
    \/ \E p \in Callers : Event(Reply(p, ErrOut("ConnectionLost")))
    \/ \E p \in Callers, ok \in BOOLEAN : Event(CloseReply(p, ok))
    \/ Sigint("c2")
    \/ Sigterm

SpecServer == Init /\ [][NextServer]_vars

(***************************************************************************)
(* MPDContext: the methods of the context class over its own client, whose *)
(* connection is handle 1.                                                 *)
(***************************************************************************)
\* the request a method of MPDContext passes to its client: none for stop(),
\* which is simulated
contextWord(name) ==
    CASE name = "context.play" -> PLAY
      [] name = "context.pause" -> PAUSE
      [] name = "context.next" -> NEXT
      [] name = "context.previous" -> PREVIOUS
      [] name = "context.getStatus" -> STATUS
      [] name = "context.getCurrentSong" -> CURRENTSONG
      [] OTHER -> <<>>

ContextMethods ==
    {"context.play", "context.pause", "context.stop", "context.next", "context.previous",
     "context.getStatus", "context.getCurrentSong"}

\* a method of MPDContext up to its await, or to its return when it awaits
\* nothing
contextEnter(name) ==
    IF contextWord(name) = <<>>
    THEN Done(NoFrame, <<>>, OkValue(<<"success">>))
    ELSE Await([NoFrame EXCEPT !.step = "cmd"],
               << [level |-> 0, step |-> "cmd", enc |-> "array", cmd |-> contextWord(name),
                   args |-> <<>>, conn |-> TRUE, handle |-> 1, out |-> Pending] >>)

ContextCall(p, name) ==
    /\ Ready(p) /\ NoSync
    /\ call' = [call EXCEPT ![p] = [NoCall EXCEPT !.name = name]]
    /\ Apply(p, contextEnter(name), inflight)
    /\ UNCHANGED <<session, lost, daemon, server>>

\* a daemon with songs queued, in any playback state
ContextDaemons ==
    {[DaemonDefault EXCEPT !.queue = q, !.state = st] :
        q \in { <<>>, << <<"a">> >>, << <<"a">>, <<"b">> >> }, st \in {"stop", "play", "pause"}}

InitContext ==
    /\ connected = TRUE
    /\ client = 1
    /\ opened = 1
    /\ closed = {}
    /\ lost = {}
    /\ daemon \in {d \in ContextDaemons : d.queue = <<>> => d.state = "stop"}
    /\ server = ServerIdle
    /\ pc = [p \in Callers |-> "idle"]
    /\ call = [p \in Callers |-> NoCall]
    /\ frame = [p \in Callers |-> NoFrame]
    /\ trace = [p \in Callers |-> <<>>]
    /\ result = [p \in Callers |-> NoResult]
    /\ inflight = <<>>

NextContext ==
    \/ \E p \in Callers, name \in ContextMethods : ContextCall(p, name)
    \/ \E p \in Callers : DaemonReply(p)
    \/ \E p \in Callers : Reply(p, ErrOut("ConnectionLost"))

SpecContext == InitContext /\ [][NextContext]_vars

(***************************************************************************)
(* The play tool: a handler on a connected session, a daemon that holds a  *)
(* queue, and a bounded number of rejected commands.                       *)
(***************************************************************************)
\* most commands of one request the daemon rejects out of turn
MaxRejects == 2

ARTIST_TITLE(a, t) == a \o <<" ", "-", " ">> \o t

PlayQueries ==
    { <<"r">>, <<"s">>, <<"z">>, ARTIST_TITLE(<<"r">>, <<"z">>), ARTIST_TITLE(<<"z">>, <<"t">>),
      ARTIST_TITLE(<<"z">>, <<"z">>) }

PlayRequests ==
    {WithQuery(Tool("play"), q) : q \in PlayQueries}
    \cup {WithType(WithQuery(Tool("play"), q), t) : q \in PlayQueries, t \in {ARTIST, TITLE}}

\* the daemon before the requests: one song queued and playing
PlayDaemon == [DaemonDefault EXCEPT !.queue = << <<"c">> >>, !.state = "play"]

InitPlay ==
    /\ connected = TRUE
    /\ client = 1
    /\ opened = 1
    /\ closed = {}
    /\ lost = {}
    /\ daemon = PlayDaemon
    /\ server = [ServerIdle EXCEPT !.main = TRUE]
    /\ pc = [p \in Callers |-> "idle"]
    /\ call = [p \in Callers |-> NoCall]
    /\ frame = [p \in Callers |-> NoFrame]
    /\ trace = [p \in Callers |-> <<>>]
    /\ result = [p \in Callers |-> NoResult]
    /\ inflight = <<>>

\* the commands of p's request that have failed so far
Rejects(p) ==
    LET all == server.h[p].cmds \o trace[p]
    IN  Cardinality({i \in 1..Len(all) : all[i].out.kind = "err"})

\* the daemon answers p's pending command with an error
RejectReply(p) ==
    /\ pc[p] = "await"
    /\ Rejects(p) < MaxRejects
    /\ Reply(p, ErrOut("CommandRejected"))

NextPlay ==
    \/ \E rq \in PlayRequests : StartRequest("c1", rq)
    \/ HandlerStep("c1")
    \/ Recurse("c1")
    \/ Event(DaemonReply("c1"))
    \/ Event(RejectReply("c1"))

SpecPlay == InitPlay /\ [][NextPlay]_vars

(***************************************************************************)
(* Two play requests handled concurrently, no command rejected out of turn.*)
(***************************************************************************)
ConcurrentRequests ==
    { WithType(WithQuery(Tool("play"), <<"r">>), ARTIST),
      WithType(WithQuery(Tool("play"), <<"s">>), ARTIST),
      WithQuery(Tool("play"), <<"r">>) }

NextConcurrent ==
    \/ \E p \in Callers, rq \in ConcurrentRequests : StartRequest(p, rq)
    \/ \E p \in Callers : HandlerStep(p)
    \/ \E p \in Callers : Event(DaemonReply(p))

SpecConcurrent == InitPlay /\ [][NextConcurrent]_vars

(***************************************************************************)
(* The connection lifecycle: two callers connecting, disconnecting and     *)
(* playing.                                                                *)
(***************************************************************************)
NextLifecycle ==
    \/ \E p \in Callers : CallConnect(p)
    \/ \E p \in Callers : CallEnsureConnected(p)
    \/ \E p \in Callers, ok \in BOOLEAN : ConnectReply(p, ok)
    \/ \E p \in Callers : CallDisconnect(p)
    \/ \E p \in Callers, ok \in BOOLEAN : CloseReply(p, ok)
    \/ \E p \in Callers : CallOp(p, [NoCall EXCEPT !.name = "play"])
    \/ \E p \in Callers, out \in Outcomes({ReplyEmpty}) : Reply(p, out)

SpecLifecycle == Init /\ [][NextLifecycle]_vars

(***************************************************************************)
(* One caller searching, on every state a session can be in.               *)
(***************************************************************************)
InitSearch ==
    /\ \E s \in { <<FALSE, 0, 0, {}>>,      \* never connected
                   <<TRUE, 1, 1, {}>>,       \* connected
                   <<FALSE, 1, 1, {1}>> } :  \* disconnected after a connection
          /\ connected = s[1]
          /\ client = s[2]
          /\ opened = s[3]
          /\ closed = s[4]
    /\ lost = {}
    /\ daemon = DaemonDefault
    /\ server = ServerIdle
    /\ pc = [p \in Callers |-> "idle"]
    /\ call = [p \in Callers |-> NoCall]
    /\ frame = [p \in Callers |-> NoFrame]
    /\ trace = [p \in Callers |-> <<>>]
    /\ result = [p \in Callers |-> NoResult]
    /\ inflight = <<>>

NextSearch ==
    \/ \E t \in SearchTypes, q \in SearchQueries : pc["c1"] = "idle" /\ CallSearch("c1", t, q)
    \/ Recurse("c1")
    \/ \E out \in Outcomes(SearchReplies) : Reply("c1", out)

SpecSearch == InitSearch /\ [][NextSearch]_vars
(***************************************************************************)
(* One caller invoking the pass-through operations.                        *)
(***************************************************************************)
\* volumes are enumerated from VolumeMargin below 0 to VolumeMargin above 100
VolumeMargin == 10

\* the volumes, in halves: every integer and every half in the range
VolumeInputs == (0 - 2 * VolumeMargin)..(2 * (100 + VolumeMargin))

OpPositions == {0, 12}
OpTimes     == {0, 75}
OpPaths     == { <<>>, <<"u">> }
OpUris      == { <<"u">>, <<"u", "\"">> }

OpCalls ==
    {[NoCall EXCEPT !.name = n] :
         n \in {"play", "pause", "stop", "next", "previous", "playlistClear"}}
    \cup {[NoCall EXCEPT !.name = "play", !.hasNum = TRUE, !.num = n] : n \in OpPositions}
    \cup {[NoCall EXCEPT !.name = "seek", !.hasNum = TRUE, !.num = n, !.num2 = t] :
              n \in OpPositions, t \in OpTimes}
    \cup {[NoCall EXCEPT !.name = "setVolume", !.hasNum = TRUE, !.num = h] : h \in VolumeInputs}
    \cup {[NoCall EXCEPT !.name = n, !.flag = b] :
              n \in {"setRepeat", "setRandom", "setSingle", "setConsume"}, b \in BOOLEAN}
    \cup {[NoCall EXCEPT !.name = "playlistDelete", !.hasNum = TRUE, !.num = n] :
              n \in OpPositions}
    \cup {[NoCall EXCEPT !.name = "listAllInfo", !.text = path] : path \in OpPaths}
    \cup {[NoCall EXCEPT !.name = "find", !.type = t, !.text = q] :
              t \in SearchTypes, q \in SampleQueries}

NextOps ==
    \/ \E c \in OpCalls : pc["c1"] = "idle" /\ CallOp("c1", c)
    \/ \E uri \in OpUris : pc["c1"] = "idle" /\ CallPlaylistAdd("c1", uri)
    \/ \E out \in Outcomes(SearchReplies) : Reply("c1", out)

SpecOps == InitSearch /\ [][NextOps]_vars
(***************************************************************************)
(* One caller invoking the operations that decode a reply.                 *)
(***************************************************************************)
\* most lines in an enumerated reply text
MaxLines == 4

\* the lines the enumerated replies are made of: file lines, other field lines
\* (one of them with the key __proto__) and lines that are not of the shape
\* Key: Value
ReplyLines ==
    { <<"f", "i", "l", "e", ":", " ", "a">>, <<"F", "i", "l", "e", ":", " ", "b">>,
      <<"T", "i", "t", "l", "e", ":", " ", "t">>, <<"t", "i", "t", "l", "e", ":", " ", "u">>,
      <<"x">>, <<"k", ":", "v">>,
      <<"_", "_", "p", "r", "o", "t", "o", "_", "_", ":", " ", "x">> }

\* every text of at most MaxLines lines
ReplyTexts == {Join(ls) : ls \in UNION {SeqsOfLen(ReplyLines, n) : n \in 0..MaxLines}}

\* status replies: playing, stopped, and replies that lack fields
StatusTexts ==
    { <<"v", "o", "l", "u", "m", "e", ":", " ", "5", "0", "\n", "r", "e", "p", "e", "a", "t", ":", " ", "1", "\n", "r", "a", "n", "d", "o", "m", ":", " ", "0", "\n", "s", "i", "n", "g", "l", "e", ":", " ", "0", "\n", "c", "o", "n", "s", "u", "m", "e", ":", " ", "0", "\n", "p", "l", "a", "y", "l", "i", "s", "t", ":", " ", "1", "\n", "p", "l", "a", "y", "l", "i", "s", "t", "l", "e", "n", "g", "t", "h", ":", " ", "2", "\n", "m", "i", "x", "r", "a", "m", "p", "d", "b", ":", " ", "0", "\n", "s", "t", "a", "t", "e", ":", " ", "p", "l", "a", "y", "\n", "s", "o", "n", "g", ":", " ", "0", "\n", "s", "o", "n", "g", "i", "d", ":", " ", "1", "\n", "t", "i", "m", "e", ":", " ", "3", "0", ":", "1", "8", "0", "\n", "e", "l", "a", "p", "s", "e", "d", ":", " ", "3", "0", "\n", "b", "i", "t", "r", "a", "t", "e", ":", " ", "3", "2", "0", "\n", "d", "u", "r", "a", "t", "i", "o", "n", ":", " ", "1", "8", "0", "\n", "a", "u", "d", "i", "o", ":", " ", "4", "4", "1", "0", "0", ":", "1", "6", ":", "2">>,
      <<"v", "o", "l", "u", "m", "e", ":", " ", "5", "0", "\n", "r", "e", "p", "e", "a", "t", ":", " ", "0", "\n", "r", "a", "n", "d", "o", "m", ":", " ", "2", "\n", "s", "i", "n", "g", "l", "e", ":", " ", "1", "\n", "c", "o", "n", "s", "u", "m", "e", ":", " ", "1", "\n", "p", "l", "a", "y", "l", "i", "s", "t", ":", " ", "1", "\n", "p", "l", "a", "y", "l", "i", "s", "t", "l", "e", "n", "g", "t", "h", ":", " ", "0", "\n", "m", "i", "x", "r", "a", "m", "p", "d", "b", ":", " ", "0", ".", "0", "0", "0", "0", "0", "0", "\n", "s", "t", "a", "t", "e", ":", " ", "s", "t", "o", "p">>,
      <<"r", "e", "p", "e", "a", "t", ":", " ", "1">>,
      <<"v", "o", "l", "u", "m", "e", ":", " ", "5", "0", "\n", "s", "o", "n", "g", ":", " ", "3">>,
      <<>> }

\* stats replies: complete, and lacking fields
StatsTexts ==
    { <<"a", "r", "t", "i", "s", "t", "s", ":", " ", "1", "0", "0", "\n", "a", "l", "b", "u", "m", "s", ":", " ", "2", "0", "0", "\n", "s", "o", "n", "g", "s", ":", " ", "1", "0", "0", "0", "\n", "u", "p", "t", "i", "m", "e", ":", " ", "3", "6", "0", "0", "\n", "d", "b", "_", "p", "l", "a", "y", "t", "i", "m", "e", ":", " ", "1", "0", "0", "0", "0", "0", "\n", "d", "b", "_", "u", "p", "d", "a", "t", "e", ":", " ", "1", "6", "2", "6", "2", "6", "2", "6", "2", "6", "\n", "p", "l", "a", "y", "t", "i", "m", "e", ":", " ", "7", "2", "0", "0">>,
      <<"a", "r", "t", "i", "s", "t", "s", ":", " ", "1", "0", "0">>,
      <<>> }

\* listplaylists replies: no, one and two playlists
PlaylistTexts ==
    { <<>>,
      <<"p", "l", "a", "y", "l", "i", "s", "t", ":", " ", "p", "\n", "L", "a", "s", "t", "-", "M", "o", "d", "i", "f", "i", "e", "d", ":", " ", "d">>,
      <<"p", "l", "a", "y", "l", "i", "s", "t", ":", " ", "p", "\n", "L", "a", "s", "t", "-", "M", "o", "d", "i", "f", "i", "e", "d", ":", " ", "d", "\n", "p", "l", "a", "y", "l", "i", "s", "t", ":", " ", "q", "\n", "L", "a", "s", "t", "-", "M", "o", "d", "i", "f", "i", "e", "d", ":", " ", "e">> }

\* the replies the daemon may give to the operation
RepliesFor(name) ==
    CASE name = "status" -> StatusTexts
      [] name = "stats" -> StatsTexts
      [] name = "listPlaylists" -> PlaylistTexts
      [] OTHER -> ReplyTexts

DecodeCalls ==
    {[NoCall EXCEPT !.name = n] :
         n \in {"status", "stats", "currentSong", "playlistInfo", "listAllInfo", "listPlaylists"}}
    \cup {[NoCall EXCEPT !.name = "find", !.type = ARTIST, !.text = <<"a">>]}

NextDecode ==
    \/ \E c \in DecodeCalls : pc["c1"] = "idle" /\ CallOp("c1", c)
    \/ pc["c1"] = "await" /\ \E out \in Outcomes(RepliesFor(call["c1"].name)) : Reply("c1", out)

SpecDecode == InitSearch /\ [][NextDecode]_vars

(***************************************************************************)
(* One caller setting the mode flags and reading the status of a daemon    *)
(* that stores them.                                                       *)
(***************************************************************************)
ModeSetters == {"setRepeat", "setRandom", "setSingle", "setConsume"}

ModeCalls ==
    {[NoCall EXCEPT !.name = n, !.flag = b] : n \in ModeSetters, b \in BOOLEAN}
    \cup {[NoCall EXCEPT !.name = "status"]}

InitModes ==
    /\ connected = TRUE /\ client = 1 /\ opened = 1 /\ closed = {} /\ lost = {}
    /\ daemon = DaemonDefault
    /\ server = ServerIdle
    /\ pc = [p \in Callers |-> "idle"]
    /\ call = [p \in Callers |-> NoCall]
    /\ frame = [p \in Callers |-> NoFrame]
    /\ trace = [p \in Callers |-> <<>>]
    /\ result = [p \in Callers |-> NoResult]
    /\ inflight = <<>>

NextModes ==
    \/ \E c \in ModeCalls : CallOp("c1", c)
    \/ DaemonReply("c1")
    \/ Reply("c1", ErrOut("CommandRejected"))

SpecModes == InitModes /\ [][NextModes]_vars

(***************************************************************************)
(* Properties.                                                             *)
(***************************************************************************)
\* operations that talk to the daemon
DataOps == {"play", "setVolume", "find", "playlistAdd", "search"}

\* the attempts of the searching caller, and its request
T1 == trace["c1"]
Q1 == call["c1"].text
Searching == call["c1"].name = "search"

\* a reply that decodes to no record
EmptyReply(out) == out.kind = "ok" /\ parseArrayResponse(out.text) = <<>>

\* a reply that decodes to at least one record
NonEmptyReply(out) == out.kind = "ok" /\ parseArrayResponse(out.text) # <<>>

\* the commands of the request that reached the transport
SentIdx(tr) == {i \in 1..Len(tr) : Sent(tr[i])}

\* attempt a is a search of field type `type` for text q in the given encoding
IsSearchOf(a, enc, type, q) ==
    /\ a.enc = enc
    /\ IF enc = "string" THEN a.cmd = SearchCommand(type, q)
       ELSE a.cmd = SEARCH /\ a.args = <<type, q>>

\* attempt a is a search with field type any
IsAnySearch(a) ==
    \/ a.enc = "array" /\ a.cmd = SEARCH /\ Len(a.args) = 2 /\ a.args[1] = ANY
    \/ a.enc = "string" /\ SubSeq(a.cmd, 1, Len(SEARCH) + 7) = SEARCH \o <<" ">> \o Quoted(ANY) \o <<" ">>

\* C1: no command is handed to the transport while the session is not
\* connected, and an operation invoked on a disconnected session fails with
\* NotConnected and sends nothing.
C1_DisconnectedSendsNothing ==
    \A p \in Callers :
        call[p].name \in DataOps =>
            /\ \A i \in 1..Len(trace[p]) : Sent(trace[p][i]) => trace[p][i].conn
            /\ (pc[p] = "done" /\ ~trace[p][1].conn) =>
                  /\ result[p] = ErrResult("NotConnected")
                  /\ SentIdx(trace[p]) = {}

\* C2: at most one command is in flight on a connection: a later command is
\* not handed to the transport before the reply to the earlier one.
C2_OneInFlight ==
    \A i, j \in 1..Len(inflight) :
        i < j => PendingHandle(inflight[i]) # PendingHandle(inflight[j])

ConnectivityErrors == {"NotConnected", "ConnectionLost"}

\* C3: a connectivity failure raised by a step of the cascade ends the search:
\* no further step is made and search fails with that failure.
C3_ConnectivityFailurePropagates ==
    (Searching /\ pc["c1"] = "done") =>
        \A i \in 1..Len(T1) :
            T1[i].out.error \in ConnectivityErrors =>
                /\ i = Len(T1)
                /\ result["c1"] = ErrResult(T1[i].out.error)

\* C4: when every attempt of the cascade returned an empty result and none
\* raised a failure, search returns the empty list and no error.
C4_ExhaustionReturnsEmpty ==
    (Searching /\ pc["c1"] = "done" /\ \A i \in 1..Len(T1) : EmptyReply(T1[i].out)) =>
        result["c1"] = OkResult(<<>>)

C4_Witness ==
    /\ Searching /\ pc["c1"] = "done"
    /\ Len(T1) = 3
    /\ \A i \in 1..Len(T1) : EmptyReply(T1[i].out)
    /\ T1[3].out.text = ReplyJunk
    /\ result["c1"] = OkResult(<<>>)

\* C5: the first attempt that returns a non-empty list ends the cascade:
\* search returns exactly that list and no further command is sent.
C5_FirstNonEmptyIsTerminal ==
    Searching =>
        \A i \in 1..Len(T1) :
            NonEmptyReply(T1[i].out) =>
                /\ i = Len(T1)
                /\ pc["c1"] = "done"
                /\ result["c1"] = OkResult(MapSongs(parseArrayResponse(T1[i].out.text)))

C5_Witness ==
    /\ Searching /\ pc["c1"] = "done"
    /\ Len(T1) = 2
    /\ T1[2].step = "title"
    /\ T1[2].out = OkOut(ReplyTwo)
    /\ Len(result["c1"].songs) = 2

\* the condition of the title-decoration fallback, as the claim states it
C6_Cond ==
    /\ call["c1"].type = TITLE
    /\ processSearchQuery(Q1) # Q1
    /\ \E k \in 1..Len(Q1) : Q1[k] = "("

\* the raw query's text before its first "(", trimmed
C6_BeforeParen ==
    LET k == CHOOSE k \in 1..Len(Q1) : Q1[k] = "(" /\ \A j \in 1..(k - 1) : Q1[j] # "("
    IN  Trim(SubSeq(Q1, 1, k - 1))

\* C6: the title-decoration fallback is attempted iff the primary attempt
\* returned empty, the type is title, normalization changed the query and
\* the raw query contains "("; it comes right after the primary attempt and
\* before the array attempt, with the text before the first "(" trimmed;
\* otherwise the array attempt follows the primary attempt directly.
C6_TitleFallbackIff ==
    Searching =>
        /\ \A i \in 1..Len(T1) :
              T1[i].step = "title" =>
                  /\ i = 2 /\ T1[1].step = "primary" /\ EmptyReply(T1[1].out)
                  /\ C6_Cond
                  /\ IsSearchOf(T1[i], "string", TITLE, C6_BeforeParen)
        /\ (Len(T1) >= 1 /\ T1[1].level = 0 /\ EmptyReply(T1[1].out)) =>
              /\ Len(T1) >= 2
              /\ T1[2].level = 0
              /\ T1[2].step = IF C6_Cond THEN "title" ELSE "array"
        /\ \A i \in 1..Len(T1) :
              (T1[i].step = "array" /\ T1[i].level = 0) =>
                  /\ i > 1 /\ EmptyReply(T1[i - 1].out)
                  /\ T1[i - 1].step = IF C6_Cond THEN "title" ELSE "primary"

C6_Witness ==
    /\ Searching
    /\ Len(T1) >= 3
    /\ T1[2].step = "title" /\ Sent(T1[2])
    /\ T1[3].step = "array" /\ Sent(T1[3])
    /\ Q1 = <<"a", " ", "-", " ", "b", " ", "(", "c", ")">>
    /\ T1[1].cmd = SearchCommand(TITLE, <<"b">>)
    /\ T1[2].cmd = SearchCommand(TITLE, <<"a", " ", "-", " ", "b">>)

\* C7: when the primary attempt is rejected with a command error, the next
\* step is the array-encoded search with the same effective query and field
\* type, before any broadening to type any.
C7_RejectedPrimaryFallsBackToArray ==
    (/\ Searching
     /\ Len(T1) >= 1
     /\ T1[1].out.error = "CommandRejected"
     /\ (pc["c1"] = "done" \/ Len(T1) >= 2)) =>
        /\ Len(T1) >= 2
        /\ T1[2].level = 0
        /\ IsSearchOf(T1[2], "array", call["c1"].type, processSearchQuery(Q1))

\* C8 as stated: for a request of type t, an any-type search is issued only
\* if t is not any and every earlier attempt raised a failure; at most one is
\* issued, and it carries the raw query.
C8_BroadenOnlyAfterAllFailed ==
    Searching =>
        IF call["c1"].type = ANY THEN \A i \in 1..Len(T1) : T1[i].level = 0
        ELSE \A i \in SentIdx(T1) :
                IsAnySearch(T1[i]) =>
                    /\ \A j \in 1..(i - 1) : T1[j].out.kind = "err"
                    /\ \A k \in SentIdx(T1) : IsAnySearch(T1[k]) => k = i
                    /\ \/ IsSearchOf(T1[i], "string", ANY, Q1)
                       \/ IsSearchOf(T1[i], "array", ANY, Q1)

\* C8 amended: the first any-type search is issued only if t is not any and
\* the attempt just before it raised a failure; the cascade recurses at most
\* once, issues at most two any-type commands (quoted-string, then array),
\* and each carries the normalized form of the raw query.
C8_BroadenAfterFailure ==
    Searching =>
        /\ \A i \in 1..Len(T1) : T1[i].level <= 1
        /\ IF call["c1"].type = ANY THEN \A i \in 1..Len(T1) : T1[i].level = 0
           ELSE /\ \A i \in 1..Len(T1) : IsAnySearch(T1[i]) <=> T1[i].level = 1
                /\ \A i \in 1..Len(T1) :
                      (T1[i].level = 1 /\ (i = 1 \/ T1[i - 1].level = 0)) =>
                          i > 1 /\ T1[i - 1].out.kind = "err"
                /\ Cardinality({i \in SentIdx(T1) : IsAnySearch(T1[i])}) <= 2
                /\ \A i, j \in SentIdx(T1) :
                      (IsAnySearch(T1[i]) /\ IsAnySearch(T1[j]) /\ i < j) =>
                          T1[i].enc = "string" /\ T1[j].enc = "array"
                /\ \A i \in 1..Len(T1) :
                      IsAnySearch(T1[i]) =>
                          \/ IsSearchOf(T1[i], "string", ANY, processSearchQuery(Q1))
                          \/ IsSearchOf(T1[i], "array", ANY, processSearchQuery(Q1))

C8_Witness ==
    /\ Searching /\ pc["c1"] = "done"
    /\ call["c1"].type = ARTIST
    /\ Q1 = <<"a", " ", "-", " ", "b", " ", "(", "c", ")">>
    /\ Len(T1) = 4
    /\ EmptyReply(T1[1].out)
    /\ T1[2].out.error = "CommandRejected"
    /\ IsSearchOf(T1[3], "string", ANY, <<"b">>) /\ Sent(T1[3])
    /\ IsSearchOf(T1[4], "array", ANY, <<"b">>) /\ Sent(T1[4])

\* the case of C9: a title search whose raw query has a "(" and no " - ",
\* every attempt answered with an empty result
C9_Case ==
    /\ Searching /\ pc["c1"] = "done"
    /\ call["c1"].type = TITLE
    /\ \E k \in 1..Len(Q1) : Q1[k] = "("
    /\ ~\E k \in 1..(Len(Q1) - 2) : Q1[k] = " " /\ Q1[k + 1] = "-" /\ Q1[k + 2] = " "
    /\ \A i \in 1..Len(T1) : EmptyReply(T1[i].out)

\* C9 as stated: the commands are the quoted-string title search, the
\* array-encoded title search and then the any-type search.
C9_EmptyTitleSearchThenAny ==
    C9_Case =>
        /\ Len(T1) = 3
        /\ IsSearchOf(T1[1], "string", TITLE, Q1)
        /\ IsSearchOf(T1[2], "array", TITLE, Q1)
        /\ IsAnySearch(T1[3])

\* C9 amended: the commands are the quoted-string title search and then the
\* array-encoded title search; search then returns the empty list and no
\* any-type search is issued.
C9_EmptyTitleSearchStops ==
    C9_Case =>
        /\ Len(T1) = 2
        /\ IsSearchOf(T1[1], "string", TITLE, Q1) /\ Sent(T1[1])
        /\ IsSearchOf(T1[2], "array", TITLE, Q1) /\ Sent(T1[2])
        /\ result["c1"] = OkResult(<<>>)

C9_Witness ==
    /\ C9_Case
    /\ Q1 = <<"b", " ", "(", "c", ")">>
    /\ Len(T1) = 2

\* C10: one search call sends at most three commands per cascade level and
\* recurses at most once, so at most six commands in all; whenever none of
\* them is pending the call has returned.
C10_CascadeBounded ==
    Searching =>
        /\ \A i \in 1..Len(T1) : T1[i].level \in {0, 1}
        /\ \A l \in {0, 1} : Cardinality({i \in SentIdx(T1) : T1[i].level = l}) <= 3
        /\ Cardinality(SentIdx(T1)) <= 6
        /\ Len(T1) <= 6
        /\ pc["c1"] \in {"await", "recurse", "done"}
        /\ pc["c1"] = "await" <=> T1[Len(T1)].out = Pending

C10_Witness ==
    /\ Searching /\ pc["c1"] = "done"
    /\ Cardinality(SentIdx(T1)) = 5
    /\ T1[3].level = 0 /\ T1[5].level = 1

(***************************************************************************)
(* Properties of the connection lifecycle.                                 *)
(***************************************************************************)
\* C11: a connect() made while the session is connected returns at once
\* without error, opens no connection and leaves the flag and the handle.
C11_ConnectIdempotent ==
    [][\A p \in Callers :
          (connected /\ CallConnect(p)) =>
              /\ pc'[p] = "done"
              /\ result'[p] = OkResult(<<>>)
              /\ connected' /\ client' = client /\ opened' = opened]_vars

C11_Witness ==
    \E p \in Callers :
        /\ pc[p] = "done" /\ call[p].name = "connect"
        /\ frame[p] = NoFrame /\ result[p] = OkResult(<<>>)
        /\ connected /\ client = 1 /\ opened = 1
        /\ \E q \in Callers : call[q].name = "play" /\ pc[q] = "done"

\* caller q invokes an operation that talks to the daemon
OpStep(q) ==
    \/ \E c \in SessionOps : CallOp(q, c)
    \/ \E uri \in Uris : CallPlaylistAdd(q, uri)
    \/ \E t \in SessionTypes, qu \in SessionQueries : CallSearch(q, t, qu)

\* C12: when MPD.connect fails, connect() fails with that failure and the
\* session is disconnected; an operation invoked then fails with NotConnected
\* and sends nothing, and a connect() invoked then tries again.
C12_FailedConnectLeavesDisconnected ==
    [][\A p \in Callers :
          /\ ConnectReply(p, FALSE) =>
                (result'[p] = connectFailure(call[p]) /\ ~connected')
          /\ (/\ pc[p] = "done" /\ call[p].name = "connect"
              /\ result[p] = ErrResult("ConnectFailed") /\ ~connected) =>
                \A q \in Callers \ {p} :
                    /\ OpStep(q) =>
                          /\ pc'[q] = "done"
                          /\ result'[q] = ErrResult("NotConnected")
                          /\ SentIdx(trace'[q]) = {}
                    /\ CallConnect(q) => pc'[q] = "connecting"]_vars

\* C13: disconnect() never raises: on a disconnected session it returns at
\* once and starts no close(); when close() settles, also with a failure,
\* disconnect() returns normally.
C13_DisconnectNeverRaises ==
    [][\A p \in Callers :
          /\ (~connected /\ CallDisconnect(p)) =>
                /\ pc'[p] = "done" /\ result'[p] = OkResult(<<>>)
                /\ trace'[p] = <<>>
                /\ closed' = closed /\ client' = client /\ connected' = connected
          /\ \A ok \in BOOLEAN :
                CloseReply(p, ok) => (pc'[p] = "done" /\ result'[p] = OkResult(<<>>))]_vars

\* a disconnect() whose close() failed has returned
C13_Witness ==
    \E p \in Callers :
        /\ pc[p] = "done" /\ call[p].name = "disconnect"
        /\ Len(trace[p]) = 1 /\ trace[p][1].step = "close"
        /\ trace[p][1].handle \notin closed
        /\ result[p] = OkResult(<<>>)

\* C14: whenever disconnect() returns, the connected flag is false.
C14_DisconnectedAfterDisconnect ==
    [][\A p \in Callers :
          /\ (CallDisconnect(p) /\ pc'[p] = "done") => ~connected'
          /\ \A ok \in BOOLEAN : CloseReply(p, ok) => ~connected']_vars

\* C15: a caller one of whose commands was failed by the loss of the
\* transport fails with ConnectionLost: it receives no result.
C15_LossFailsEveryCaller ==
    \A p \in Callers :
        (/\ call[p].name \in DataOps /\ pc[p] = "done"
         /\ \E i \in 1..Len(trace[p]) : trace[p][i].out.error = "ConnectionLost") =>
            result[p] = ErrResult("ConnectionLost")

\* C16: once the transport of a connection has failed the session is not
\* connected through it, so that connect() opens a new connection.
C16_LostConnectionIsDestroyed ==
    \A h \in lost : ~(connected /\ client = h)

\* C17: at most one connect() or disconnect() is between the start and the
\* completion of its transport step.
C17_ConnectDisconnectExclusive ==
    Cardinality({p \in Callers : pc[p] \in {"connecting", "closing"}}) <= 1

\* connections opened and neither closed nor failed
OpenConnections == (1..opened) \ (closed \cup lost)

\* C18: the session owns at most one open transport connection.
C18_AtMostOneConnection ==
    Cardinality(OpenConnections) <= 1

(***************************************************************************)
(* Properties of the pass-through operations.                              *)
(***************************************************************************)
PassThroughOps ==
    {"play", "pause", "stop", "next", "previous", "seek", "setVolume", "setRepeat",
     "setRandom", "setSingle", "setConsume", "playlistAdd", "playlistDelete",
     "playlistClear", "listAllInfo", "find"}

\* the protocol word of each pass-through operation
C19_Word(name) ==
    CASE name = "play" -> <<"p", "l", "a", "y">>
      [] name = "pause" -> <<"p", "a", "u", "s", "e">>
      [] name = "stop" -> <<"s", "t", "o", "p">>
      [] name = "next" -> <<"n", "e", "x", "t">>
      [] name = "previous" -> <<"p", "r", "e", "v", "i", "o", "u", "s">>
      [] name = "seek" -> <<"s", "e", "e", "k">>
      [] name = "setVolume" -> <<"s", "e", "t", "v", "o", "l">>
      [] name = "setRepeat" -> <<"r", "e", "p", "e", "a", "t">>
      [] name = "setRandom" -> <<"r", "a", "n", "d", "o", "m">>
      [] name = "setSingle" -> <<"s", "i", "n", "g", "l", "e">>
      [] name = "setConsume" -> <<"c", "o", "n", "s", "u", "m", "e">>
      [] name = "playlistAdd" -> <<"a", "d", "d">>
      [] name = "playlistDelete" -> <<"d", "e", "l", "e", "t", "e">>
      [] name = "playlistClear" -> <<"c", "l", "e", "a", "r">>
      [] name = "listAllInfo" -> <<"l", "i", "s", "t", "a", "l", "l", "i", "n", "f", "o">>
      [] name = "find" -> <<"f", "i", "n", "d">>

\* a pass-through operation invoked by the caller on a connected session
C19_Case ==
    /\ call["c1"].name \in PassThroughOps
    /\ pc["c1"] # "idle"
    /\ T1[1].conn

\* the first command of the operation: its word with an argument list
C19_First ==
    /\ Sent(T1[1])
    /\ T1[1].enc = "array"
    /\ T1[1].cmd = C19_Word(call["c1"].name)
    /\ call["c1"].name = "find" => T1[1].args = <<call["c1"].type, Q1>>
    /\ call["c1"].name = "playlistAdd" => T1[1].args = <<Q1>>

C20_Expected(halves) ==
    LET f == (halves - (halves % 2)) \div 2
    IN  IF f < 0 THEN 0 ELSE IF f > 100 THEN 100 ELSE f

\* C20: setVolume(v) sends one setvol command whose argument is the decimal
\* form of min(100, max(0, floor(v))), an integer in 0..100.
C20_VolumeClamped ==
    (call["c1"].name = "setVolume" /\ pc["c1"] # "idle") =>
        /\ Len(T1) = 1
        /\ T1[1].cmd = <<"s", "e", "t", "v", "o", "l">>
        /\ Len(T1[1].args) = 1
        /\ parseInt(T1[1].args[1]) = Num(FALSE, C20_Expected(call["c1"].num), <<>>)
        /\ \E n \in 0..100 : T1[1].args[1] = toString(n)
        /\ T1[1].conn => Sent(T1[1])

\* setVolume(50.5) sent "50" and returned
C20_Witness ==
    /\ call["c1"].name = "setVolume" /\ pc["c1"] = "done"
    /\ call["c1"].num = 101
    /\ Sent(T1[1]) /\ T1[1].args = << <<"5", "0">> >>
    /\ T1[1].out.error = "CommandRejected"

(***************************************************************************)
(* Mode flags and reply decoding.                                          *)
(***************************************************************************)
\* the command word of a mode setter
C21_Word(name) ==
    CASE name = "setRepeat" -> <<"r", "e", "p", "e", "a", "t">>
      [] name = "setRandom" -> <<"r", "a", "n", "d", "o", "m">>
      [] name = "setSingle" -> <<"s", "i", "n", "g", "l", "e">>
      [] name = "setConsume" -> <<"c", "o", "n", "s", "u", "m", "e">>

\* the flag of the record rec that a mode setter sets
C21_Flag(rec, name) ==
    CASE name = "setRepeat" -> rec.repeat
      [] name = "setRandom" -> rec.random
      [] name = "setSingle" -> rec.single
      [] name = "setConsume" -> rec.consume

\* values a status reply may carry for a flag
C21_Values == {<<"1">>, <<"0">>, <<"2">>, <<"o", "n">>, <<"1", "1">>, <<"t", "r", "u", "e">>}

\* C21: setX(b) sends the command X with the single argument "1" if b and "0"
\* otherwise; once it has returned the daemon holds X = b, and a status() that
\* returns gives every flag as the daemon holds it; a reply value "1" decodes
\* to true and any other present value to false.
C21_ModeRoundTrip ==
    /\ (call["c1"].name \in ModeSetters /\ pc["c1"] # "idle") =>
          /\ Len(T1) = 1 /\ T1[1].enc = "array" /\ Sent(T1[1])
          /\ T1[1].cmd = C21_Word(call["c1"].name)
          /\ T1[1].args = << IF call["c1"].flag THEN <<"1">> ELSE <<"0">> >>
    /\ (call["c1"].name \in ModeSetters /\ pc["c1"] = "done" /\ result["c1"].kind = "ok") =>
          C21_Flag(daemon, call["c1"].name) = call["c1"].flag
    /\ (call["c1"].name = "status" /\ pc["c1"] = "done" /\ result["c1"].kind = "ok") =>
          \A n \in ModeSetters : C21_Flag(result["c1"].value, n) = C21_Flag(daemon, n)
    /\ \A n \in ModeSetters, v \in C21_Values :
          C21_Flag(statusOf(parseResponse(C21_Word(n) \o <<":", " ">> \o v)), n) = (v = <<"1">>)

\* status() returned consume = true and the other flags false from a daemon
\* whose consume flag a setConsume(true) had set before
C21_Witness ==
    /\ call["c1"].name = "status" /\ pc["c1"] = "done" /\ result["c1"].kind = "ok"
    /\ daemon = [DaemonDefault EXCEPT !.consume = TRUE]
    /\ result["c1"].value.consume /\ ~result["c1"].value.repeat
    /\ ~result["c1"].value.random /\ ~result["c1"].value.single

\* the reply text the decoding operation of caller c1 was given
D1 == T1[1].out.text

\* caller c1's operation has decoded a reply
Decoded(names) ==
    /\ call["c1"].name \in names /\ pc["c1"] = "done"
    /\ Len(T1) = 1 /\ T1[1].out.kind = "ok"

\* the lines of a text; the empty text has none
LinesOf(text) == IF text = <<>> THEN <<>> ELSE Split(text, <<"\n">>)

\* a line of the shape Key: Value: a non-empty key without a colon, a colon,
\* one whitespace character and a non-empty value
HasShape(l) ==
    \E k \in 2..(Len(l) - 2) :
        /\ l[k] = ":" /\ \A j \in 1..(k - 1) : l[j] # ":"
        /\ l[k + 1] \in {" ", "\t", "\r"}
        /\ \A j \in (k + 2)..Len(l) : l[j] \notin {"\n", "\r"}

\* the lower-cased key and the value of a line of that shape
KeyOf(l) == ToLowerCase(SubSeq(l, 1, IndexOf(l, <<":">>) - 1))
ValueOf(l) == SubSeq(l, IndexOf(l, <<":">>) + 2, Len(l))

\* the record a run of field lines denotes: the keys of the lines, each with
\* the value of the last line that has it
RecordOf(ls) ==
    [k \in {KeyOf(ls[i]) : i \in 1..Len(ls)} |->
        ValueOf(ls[CHOOSE i \in 1..Len(ls) :
                      /\ KeyOf(ls[i]) = k
                      /\ \A j \in (i + 1)..Len(ls) : KeyOf(ls[j]) # k])]

\* the positions of the file lines
C22_Starts(ls) == {i \in 1..Len(ls) : KeyOf(ls[i]) = <<"f", "i", "l", "e">>}

\* N blocks, each a file line followed by at least one other field line
C22_Blocks(ls) ==
    /\ \A i \in 1..Len(ls) : HasShape(ls[i])
    /\ ls # <<>> => 1 \in C22_Starts(ls)
    /\ \A i \in C22_Starts(ls) : i < Len(ls) /\ (i + 1) \notin C22_Starts(ls)

\* the lines of block k
C22_Block(ls, k) ==
    LET S     == C22_Starts(ls)
        at(n) == CHOOSE i \in S : Cardinality({j \in S : j <= i}) = n
    IN  SubSeq(ls, at(k), IF k = Cardinality(S) THEN Len(ls) ELSE at(k + 1) - 1)

\* C22: parseArrayResponse applied to text made of N >= 0 blocks, each a file
\* line followed by at least one other field line, returns exactly N records
\* in input order, record i holding exactly the fields of block i.
C22_BlocksToRecords ==
    (Decoded({"playlistInfo", "find", "listAllInfo"}) /\ C22_Blocks(LinesOf(D1))) =>
        LET ls == LinesOf(D1)
            rs == parseArrayResponse(D1)
        IN  /\ Len(rs) = Cardinality(C22_Starts(ls))
            /\ \A k \in 1..Len(rs) : rs[k] = RecordOf(C22_Block(ls, k))

\* the same for blocks none of whose keys is __proto__
C22_OrdinaryBlocksToRecords ==
    (/\ Decoded({"playlistInfo", "find", "listAllInfo"}) /\ C22_Blocks(LinesOf(D1))
     /\ \A i \in 1..Len(LinesOf(D1)) : KeyOf(LinesOf(D1)[i]) # ProtoKey) =>
        LET ls == LinesOf(D1)
            rs == parseArrayResponse(D1)
        IN  /\ Len(rs) = Cardinality(C22_Starts(ls))
            /\ \A k \in 1..Len(rs) : rs[k] = RecordOf(C22_Block(ls, k))

\* two blocks of two lines each were decoded to two songs
C22_TwoBlocks ==
    /\ Decoded({"playlistInfo"})
    /\ D1 = Join(<< <<"f", "i", "l", "e", ":", " ", "a">>, <<"T", "i", "t", "l", "e", ":", " ", "t">>,
                    <<"F", "i", "l", "e", ":", " ", "b">>, <<"t", "i", "t", "l", "e", ":", " ", "u">> >>)
    /\ Len(result["c1"].songs) = 2

\* the text without its lines that are not of the shape Key: Value
C23_Stripped(text) == Join(SelectSeq(LinesOf(text), HasShape))

\* C23: the decoders never raise and skip the lines that are not of the shape
\* Key: Value: parseResponse and parseArrayResponse give for a text what they
\* give for the text without those lines, the operation that decodes returns,
\* and a text without a matching line gives the empty record and the empty
\* list.
C23_NonMatchingLinesSkipped ==
    Decoded({"playlistInfo", "find", "listAllInfo", "currentSong"}) =>
        /\ result["c1"].kind = "ok"
        /\ parseResponse(D1) = parseResponse(C23_Stripped(D1))
        /\ parseArrayResponse(D1) = parseArrayResponse(C23_Stripped(D1))
        /\ result["c1"] = cmdResult(call["c1"], C23_Stripped(D1))
        /\ C23_Stripped(D1) = <<>> =>
              /\ parseResponse(D1) = EmptyRecord
              /\ parseArrayResponse(D1) = <<>>
              /\ result["c1"] = (IF call["c1"].name = "currentSong"
                                 THEN OkValue(Null) ELSE OkResult(<<>>))

\* a reply with two lines that do not match between two that do was decoded
\* to one song
C23_Witness ==
    /\ Decoded({"playlistInfo"})
    /\ D1 = Join(<< <<"f", "i", "l", "e", ":", " ", "a">>, <<"x">>, <<"k", ":", "v">>,
                    <<"T", "i", "t", "l", "e", ":", " ", "t">> >>)
    /\ Len(result["c1"].songs) = 1
    /\ result["c1"].songs[1].file = <<"a">> /\ result["c1"].songs[1].title = <<"t">>

\* C24: parseResponse returns one record whose keys are the lower-cased keys
\* of the matching lines, each with the value of the last matching line that
\* has that key, compared case-insensitively.
C24_LastKeyWins ==
    Decoded({"currentSong"}) =>
        parseResponse(D1) = RecordOf(SelectSeq(LinesOf(D1), HasShape))

\* the same for replies without the key __proto__
C24_OrdinaryLastKeyWins ==
    (/\ Decoded({"currentSong"})
     /\ \A i \in 1..Len(LinesOf(D1)) : HasShape(LinesOf(D1)[i]) => KeyOf(LinesOf(D1)[i]) # ProtoKey) =>
        parseResponse(D1) = RecordOf(SelectSeq(LinesOf(D1), HasShape))

\* the positions of the playlist lines of a listplaylists reply
C25_Names(ls) ==
    {i \in 1..Len(ls) : HasShape(ls[i]) /\ KeyOf(ls[i]) = <<"p", "l", "a", "y", "l", "i", "s", "t">>}

\* the entry of the playlist line at position i: its name and the value of
\* the last-modified line that follows it
C25_Entry(ls, i) ==
    [playlist     |-> ValueOf(ls[i]),
     lastModified |-> IF i < Len(ls) THEN ValueOf(ls[i + 1]) ELSE Undefined]

\* C25: for a reply that lists k playlists, each a playlist line and its
\* last-modified line, listPlaylists returns k entries in reply order, each
\* pairing the playlist's name with its own last-modified value.
C25_OneEntryPerPlaylist ==
    Decoded({"listPlaylists"}) =>
        LET ls == LinesOf(D1)
            S  == C25_Names(ls)
            es == result["c1"].value
        IN  /\ Len(es) = Cardinality(S)
            /\ \A i \in S : es[Cardinality({j \in S : j <= i})] = C25_Entry(ls, i)

\* the numeric and boolean fields of Status with an unconditional mapping,
\* and the numeric fields of Stats
C26_StatusFields ==
    {"volume", "repeat", "random", "single", "consume", "playlist", "playlistlength",
     "mixrampdb", "song", "songid", "elapsed", "bitrate", "duration", "nextsong", "nextsongid"}
C26_StatsFields ==
    {"artists", "albums", "songs", "uptime", "db_playtime", "db_update", "playtime"}
C26_SongFields == {"duration", "pos", "id"}

\* the key of a field as a sequence of characters
C26_Key(f) ==
    CASE f = "volume" -> <<"v", "o", "l", "u", "m", "e">>
      [] f = "repeat" -> <<"r", "e", "p", "e", "a", "t">>
      [] f = "random" -> <<"r", "a", "n", "d", "o", "m">>
      [] f = "single" -> <<"s", "i", "n", "g", "l", "e">>
      [] f = "consume" -> <<"c", "o", "n", "s", "u", "m", "e">>
      [] f = "playlist" -> <<"p", "l", "a", "y", "l", "i", "s", "t">>
      [] f = "playlistlength" -> <<"p", "l", "a", "y", "l", "i", "s", "t", "l", "e", "n", "g", "t", "h">>
      [] f = "mixrampdb" -> <<"m", "i", "x", "r", "a", "m", "p", "d", "b">>
      [] f = "song" -> <<"s", "o", "n", "g">>
      [] f = "songid" -> <<"s", "o", "n", "g", "i", "d">>
      [] f = "elapsed" -> <<"e", "l", "a", "p", "s", "e", "d">>
      [] f = "bitrate" -> <<"b", "i", "t", "r", "a", "t", "e">>
      [] f = "duration" -> <<"d", "u", "r", "a", "t", "i", "o", "n">>
      [] f = "nextsong" -> <<"n", "e", "x", "t", "s", "o", "n", "g">>
      [] f = "nextsongid" -> <<"n", "e", "x", "t", "s", "o", "n", "g", "i", "d">>
      [] f = "artists" -> <<"a", "r", "t", "i", "s", "t", "s">>
      [] f = "albums" -> <<"a", "l", "b", "u", "m", "s">>
      [] f = "songs" -> <<"s", "o", "n", "g", "s">>
      [] f = "uptime" -> <<"u", "p", "t", "i", "m", "e">>
      [] f = "db_playtime" -> <<"d", "b", "_", "p", "l", "a", "y", "t", "i", "m", "e">>
      [] f = "db_update" -> <<"d", "b", "_", "u", "p", "d", "a", "t", "e">>
      [] f = "playtime" -> <<"p", "l", "a", "y", "t", "i", "m", "e">>
      [] f = "pos" -> <<"p", "o", "s">>
      [] f = "id" -> <<"i", "d">>

\* C26: for every numeric and boolean field of Status, Stats and Song, when
\* the decoded record lacks the source field the entity's field is absent
\* (undefined): neither false nor not-a-number stands in for it.
C26_MissingFieldAbsent ==
    Decoded({"status", "stats", "currentSong"}) =>
        LET v      == result["c1"].value
            fields == CASE call["c1"].name = "status" -> C26_StatusFields
                        [] call["c1"].name = "stats" -> C26_StatsFields
                        [] OTHER -> IF v = Null THEN {} ELSE C26_SongFields
        IN  \A f \in fields :
                C26_Key(f) \notin DOMAIN parseResponse(D1) => v[f] = Undefined

\* C27: currentSong() returns null, and raises nothing, whenever the reply
\* decodes to a record without a file field, also when the record has other
\* fields; it returns a Song only when the record has a non-empty file.
C27_NoFileNoSong ==
    Decoded({"currentSong"}) =>
        /\ result["c1"].kind = "ok"
        /\ <<"f", "i", "l", "e">> \notin DOMAIN parseResponse(D1) => result["c1"].value = Null
        /\ result["c1"].value # Null =>
              /\ result["c1"].value.file # Undefined
              /\ result["c1"].value.file # <<>>

\* C28: every Song in a list returned by playlistInfo, listAllInfo or find
\* has a file identifier.
C28_EverySongHasFile ==
    Decoded({"playlistInfo", "listAllInfo", "find"}) =>
        \A i \in 1..Len(result["c1"].songs) :
            /\ result["c1"].songs[i].file # Undefined
            /\ result["c1"].songs[i].file # <<>>

(***************************************************************************)
(* Query normalization and quoting.                                        *)
(***************************************************************************)
\* the positions at which sub occurs in s
C29_At(s, sub) == {i \in 1..(Len(s) - Len(sub) + 1) : SubSeq(s, i, i + Len(sub) - 1) = sub}

\* the <right> parts of the readings of q as <left> - <right> (<tail>
C29_Rights(q) ==
    {SubSeq(q, ij[1] + 3, ij[2] - 1) :
        ij \in {p \in C29_At(q, <<" ", "-", " ">>) \X C29_At(q, <<" ", "(">>) : p[2] >= p[1] + 3}}

\* what normalization may return for q: a <right> trimmed when q has the
\* shape, q itself when it has not
C29_Reference(q) == IF C29_Rights(q) = {} THEN {q} ELSE {Trim(r) : r \in C29_Rights(q)}

\* C29: the query of the first search command sent is, for a raw query of the
\* shape <left> - <right> (<tail>, <right> trimmed, and for every other raw
\* query the raw query unchanged.
C29_NormalizeByShape ==
    (Searching /\ Len(T1) >= 1 /\ Sent(T1[1])) =>
        /\ processSearchQuery(Q1) \in C29_Reference(Q1)
        /\ \E r \in C29_Reference(Q1) : T1[1].cmd = SearchCommand(call["c1"].type, r)

\* the argument that starts after an opening double quote at position i - 1
\* of s, as the daemon reads it: a backslash makes the next character literal,
\* a double quote ends the argument; ok is FALSE when the text ends first
RECURSIVE C30_Arg(_, _, _)
C30_Arg(s, i, acc) ==
    IF i > Len(s) THEN [ok |-> FALSE, value |-> acc, next |-> i]
    ELSE IF s[i] = "\"" THEN [ok |-> TRUE, value |-> acc, next |-> i + 1]
    ELSE IF s[i] = "\\"
         THEN IF i + 1 > Len(s) THEN [ok |-> FALSE, value |-> acc, next |-> i]
              ELSE C30_Arg(s, i + 2, Append(acc, s[i + 1]))
    ELSE C30_Arg(s, i + 1, Append(acc, s[i]))

\* the request text is one line: the word search and exactly two quoted
\* arguments, the second of which reads back as the text q
C30_ReadsBack(s, q) ==
    LET w  == <<"s", "e", "a", "r", "c", "h", " ", "\"">>
        a1 == C30_Arg(s, Len(w) + 1, <<>>)
        a2 == C30_Arg(s, a1.next + 2, <<>>)
    IN  /\ \A i \in 1..Len(s) : s[i] # "\n"
        /\ Len(s) > Len(w) /\ SubSeq(s, 1, Len(w)) = w
        /\ a1.ok /\ a1.next + 1 <= Len(s)
        /\ s[a1.next] = " " /\ s[a1.next + 1] = "\""
        /\ a2.ok /\ a2.next = Len(s) + 1
        /\ a2.value = q

\* C30: the quoted-string search request sent is a single line made of the command
\* word and exactly two double-quoted arguments, and un-escaping the second
\* argument gives back the query that is searched for.
C30_QuotedRequestReadsBack ==
    (Searching /\ Len(T1) >= 1 /\ Sent(T1[1])) =>
        /\ T1[1].enc = "string"
        /\ C30_ReadsBack(T1[1].cmd, processSearchQuery(Q1))

\* the same for queries without backslash and newline
C30_PlainRequestReadsBack ==
    (Searching /\ Len(T1) >= 1 /\ Sent(T1[1]) /\ \A i \in 1..Len(Q1) : Q1[i] \notin {"\\", "\n"}) =>
        /\ T1[1].enc = "string"
        /\ C30_ReadsBack(T1[1].cmd, processSearchQuery(Q1))


(***************************************************************************)
(* The server's handlers.                                                  *)
(***************************************************************************)
\* the handlers of tool calls and resource reads
Requests == {p \in Callers : server.h[p].req.kind \in {"tool", "resource"}}

\* the client operations a handler has invoked after ensureConnected()
ClientOps(h) == SelectSeq(h.ops, LAMBDA o : o.call.name # "connect")

FailedToConnect == [kind |-> "err", msg |-> <<"Failed to connect to MPD server">>]

\* C31: every tool call and resource read first ensures the session is
\* connected: ensureConnected() calls connect() exactly when the client's
\* connected flag is not set at the start of the request; the first client
\* operation of a request is invoked with the flag set, and none while
\* ensureConnected() is pending; and when connect() fails the request fails
\* with 'Failed to connect to MPD server', no client operation invoked and no
\* command sent
C31_EnsureConnectedFirst ==
    \A p \in Requests :
        LET h == server.h[p]
        IN  /\ (h.ops # <<>> /\ h.ops[1].call.name = "connect") <=> ~h.conn0
            /\ \A i \in 2..Len(h.ops) : h.ops[i].call.name # "connect"
            /\ h.stage = "ensure" => ClientOps(h) = <<>>
            /\ ClientOps(h) # <<>> => ClientOps(h)[1].conn
            /\ (h.stage \in Resting /\ call[p].name = "ensureConnected"
                    /\ result[p].kind = "err")
                  => h.answer = FailedToConnect /\ ClientOps(h) = <<>> /\ h.cmds = <<>>

\* C31 witness: the second request served found the client not connected, has
\* connected and has then invoked a client operation with the flag set
C31_Witness ==
    \E p \in Requests :
        LET h == server.h[p]
        IN  /\ ~h.conn0 /\ Len(h.ops) >= 2 /\ h.ops[2].conn
            /\ server.served = 2


\* a request names a resource, a tool or an action the handlers do not know
IsUnknown(rq) ==
    \/ rq.kind = "resource" /\ resourceOp(rq.name) = "none"
    \/ rq.kind = "tool" /\ rq.name \notin KnownTools
    \/ rq.kind = "tool" /\ rq.name \in {"player", "playback_control"}
          /\ rq.action \notin PlayerOps(rq.name)
    \/ rq.kind = "tool" /\ rq.name \in {"playlist", "playlist_manager"}
          /\ rq.action \notin {"add", "delete", "clear"}

\* the words 'Unknown ...: X' for the request
UnknownPart(rq) ==
    IF rq.kind = "resource" THEN <<"Unknown resource", rq.name>>
    ELSE IF rq.name \notin KnownTools THEN <<"Unknown tool", rq.name>>
    ELSE <<"Unknown action", rq.action>>

\* the answer is an error whose message ends with the words for the request
NamesIt(answer, rq) ==
    /\ answer.kind = "err"
    /\ Len(answer.msg) >= 2
    /\ SubSeq(answer.msg, Len(answer.msg) - 1, Len(answer.msg)) = UnknownPart(rq)

\* the handlers that have answered a request naming something unknown
UnknownAnswered == {p \in Requests : IsUnknown(server.h[p].req) /\ server.h[p].stage \in Resting}

\* C32, as stated: a request naming an unknown tool, resource or action fails
\* with an error that names it, and sends no command
C32_UnknownIsNamed ==
    \A p \in UnknownAnswered :
        NamesIt(server.h[p].answer, server.h[p].req) /\ server.h[p].cmds = <<>>

\* C32, amended: a request naming an unknown tool, resource or action invokes
\* no client operation and sends no command; it fails with 'Failed to connect
\* to MPD server' when the connect of ensureConnected() failed, and otherwise
\* with an error that ends with the words naming it
C32_UnknownIsNamedOnceConnected ==
    \A p \in UnknownAnswered :
        LET h == server.h[p]
        IN  /\ h.cmds = <<>> /\ ClientOps(h) = <<>>
            /\ IF result[p].kind = "err" THEN h.answer = FailedToConnect
               ELSE NamesIt(h.answer, h.req)

\* C32 witness: a request for an unknown action of the player tool has
\* connected and has failed with the error that names the action
C32_Witness ==
    \E p \in UnknownAnswered :
        /\ server.h[p].req.name = "player" /\ ~server.h[p].conn0
        /\ NamesIt(server.h[p].answer, server.h[p].req)


\* the process exits in this step
Exits == server.running /\ ~server'.running

\* C33: when the process has exited on SIGINT, disconnect() was invoked
\* before and the exit code is 0, whether or not the disconnect succeeded;
\* the step that exits on SIGTERM invokes no disconnect() and exits with
\* code 0
C33_SignalExit ==
    /\ [](server.exitBy = "SIGINT" => server.disconnects >= 1 /\ server.code = 0)
    /\ [][Exits /\ server'.exitBy = "SIGTERM"
             => /\ server'.code = 0
                /\ server'.disconnects = server.disconnects
                /\ pc' = pc /\ trace' = trace]_vars
    /\ [][Exits /\ server'.exitBy = "SIGINT"
             => \E p \in Callers : call[p].name = "disconnect" /\ pc[p] = "done"]_vars

\* C33 witness: the process has exited on SIGINT with code 0 after a
\* disconnect() whose close() failed
C33_Witness ==
    /\ ~server.running /\ server.exitBy = "SIGINT" /\ server.code = 0
    /\ \E p \in Callers : call[p].name = "disconnect" /\ trace[p] # <<>> /\ closeFailed(p)


\* the tools that search for a query
QueryTools == {"play", "search", "search_music"}

\* the errors of the three tools for a query that is not there
QueryRequired ==
    { <<"Query is required - specify what you want to play">>,
      <<"Search query is required">>,
      <<"Search type and query are required">> }

\* C39: a call of the search or play tool whose query argument is missing or
\* empty invokes no client operation, so sends no search command, and, once
\* ensureConnected() has returned, fails with the 'query is required' error
C39_QueryRequired ==
    \A p \in Requests :
        LET h == server.h[p]
        IN  (h.req.name \in QueryTools /\ (~h.req.hasQuery \/ h.req.query = <<>>))
               => /\ ClientOps(h) = <<>>
                  /\ h.cmds = <<>>
                  /\ (h.stage \in Resting /\ result[p].kind = "ok")
                        => h.answer.kind = "err" /\ h.answer.msg \in QueryRequired

\* C39 for a query that is the empty string: the part of the claim the code
\* keeps
C39_EmptyQueryRequired ==
    \A p \in Requests :
        LET h == server.h[p]
        IN  (h.req.name \in QueryTools /\ h.req.hasQuery /\ h.req.query = <<>>)
               => /\ ClientOps(h) = <<>> /\ h.cmds = <<>>
                  /\ (h.stage \in Resting /\ result[p].kind = "ok")
                        => h.answer.kind = "err" /\ h.answer.msg \in QueryRequired


\* a request arrives in this step
Arrives == server'.served = server.served + 1

\* the session has no live transport: the flag is unset, or the connection
\* behind it is lost
NoTransport == ~connected \/ client \in lost

\* C40: a request that arrives while the session has no live transport,
\* after a failed connect or after the transport is lost, re-attempts the
\* connection; and neither a failed connect nor a lost transport ends the
\* process
C40_RequestsReconnect ==
    /\ [][Arrives /\ NoTransport
             => \E p \in Callers : call'[p].name = "ensureConnected" /\ pc'[p] = "connecting"]_vars
    /\ [](~server.running => server.exitBy \in {"SIGINT", "SIGTERM"})

\* C40 after a failed connect only: the part of the claim the code keeps
C40_RequestsReconnectAfterFailure ==
    [][Arrives /\ ~connected
          => \E p \in Callers : call'[p].name = "ensureConnected" /\ pc'[p] = "connecting"]_vars


\* C34: when MPDContext.stop() has returned successfully, a stop request has
\* been sent to the daemon, and, no other method called since, the daemon's
\* playback state is stopped
C34_StopStops ==
    \A p \in Callers :
        (call[p].name = "context.stop" /\ pc[p] = "done" /\ result[p].kind = "ok")
           => /\ \E i \in 1..Len(trace[p]) : Sent(trace[p][i]) /\ trace[p][i].cmd = STOP
              /\ (\A r \in Callers \ {p} : pc[r] = "idle") => daemon.state = "stop"


(***************************************************************************)
(* The play tool.                                                          *)
(***************************************************************************)
\* the handlers of play tool calls
PlayHandlers == {p \in Requests : server.h[p].req.name = "play"}

\* the client operations of a handler after its searches
AfterSearch(h) ==
    LET ops == SelectSeq(ClientOps(h), LAMBDA o : o.call.name # "search")
    IN  [i \in 1..Len(ops) |-> ops[i].call]

\* the command is a search request
IsSearchCommand(a) == daemonRequest(a).word = SEARCH

CouldNotFind ==
    [kind |-> "ok", msg |-> <<"Could not find any music matching", "Try a different search term">>]

\* C35: a play tool call none of whose searches has found a song invokes
\* nothing but searches and sends nothing but search commands, so the
\* daemon's queue and playback state are as they were when the call started;
\* and when its last search has returned it answers 'Could not find any music
\* matching ...'
C35_NothingFoundNothingChanged ==
    \A p \in PlayHandlers :
        LET h == server.h[p]
        IN  h.results = <<>>
               => /\ AfterSearch(h) = <<>>
                  /\ \A i \in 1..Len(h.cmds) : IsSearchCommand(h.cmds[i])
                  /\ daemon.queue = h.queue0 /\ daemon.state = h.state0
                  /\ (h.stage \in Resting /\ ClientOps(h) # <<>>) => h.answer = CouldNotFind

\* C35 witness: a call for 'z - z' has searched three times, found nothing
\* and answered, the song queued before still queued
C35_Witness ==
    \E p \in PlayHandlers :
        LET h == server.h[p]
        IN  /\ h.answer = CouldNotFind /\ Len(ClientOps(h)) = 3 /\ Len(h.cmds) >= 3
            /\ h.queue0 # <<>> /\ daemon.queue = h.queue0


\* s is a prefix of t
IsPrefix(s, t) == Len(s) <= Len(t) /\ SubSeq(t, 1, Len(s)) = s

\* the call is of type artist or album
ByArtistOrAlbum(h) == h.req.hasType /\ h.req.type \in {ARTIST, ALBUM}

\* the adds of a play tool call that found h.results: every result for type
\* artist or album, the first result otherwise
PlayAdds(h) ==
    IF ByArtistOrAlbum(h) THEN [i \in 1..Len(h.results) |-> addCall(h.results[i].file)]
    ELSE <<addCall(h.results[1].file)>>

\* one playlistClear, the adds, play(0)
ClearAddPlay(h) == <<opCall("playlistClear")>> \o PlayAdds(h) \o <<playCall(0)>>

\* the play tool calls that have found results and have ended
PlayEnded == {p \in PlayHandlers : server.h[p].results # <<>> /\ server.h[p].stage \in Resting}

\* C36, as stated: a play tool call that has found results invokes, in
\* order, one playlistClear, the adds and play(0)
C36_ClearAddsPlay ==
    \A p \in PlayEnded : IsPrefix(ClearAddPlay(server.h[p]), AfterSearch(server.h[p]))

\* C36, amended: what a play tool call that has found results invokes after
\* its searches is always a beginning of playlistClear, the adds, play(0)
\* (and currentSong for type artist or album): no add before the clear, the
\* adds in result order, play(0) after the last add. The call ends early,
\* with an error, only when the operation it has just awaited has failed,
\* and for type artist or album no failed add ends it: once the clear has
\* succeeded every add and play(0) are invoked
C36_ClearAddsPlayUnlessFailed ==
    \A p \in PlayHandlers :
        LET h    == server.h[p]
            full == ClearAddPlay(h) \o (IF ByArtistOrAlbum(h) THEN <<opCall("currentSong")>> ELSE <<>>)
        IN  h.results # <<>>
               => /\ IsPrefix(AfterSearch(h), full)
                  /\ h.stage = "finished" => AfterSearch(h) = full
                  /\ h.stage = "failed" => result[p].kind = "err"
                  /\ (h.stage = "failed" /\ ByArtistOrAlbum(h) /\ Len(AfterSearch(h)) >= 2)
                        => IsPrefix(ClearAddPlay(h), AfterSearch(h))

\* C36 witness: a call of type artist has found two songs, the add of one of
\* them has failed, and the call has ended after the clear, the two adds and
\* play(0)
C36_Witness ==
    \E p \in PlayEnded :
        LET h == server.h[p]
        IN  /\ ByArtistOrAlbum(h) /\ Len(h.results) = 2 /\ h.stage = "finished"
            /\ IsPrefix(ClearAddPlay(h), AfterSearch(h))
            /\ \E i \in 1..Len(h.cmds) :
                  daemonRequest(h.cmds[i]).word = ADD /\ h.cmds[i].out.kind = "err"

\* C37: when a play tool call has ended in an error, the daemon's queue is
\* the queue of before the call
C37_ErrorLeavesQueue ==
    \A p \in PlayHandlers :
        server.h[p].stage = "failed" => daemon.queue = server.h[p].queue0

\* the queue a play tool call produces alone
PlayQueue(h) == [i \in 1..Len(PlayAdds(h)) |-> PlayAdds(h)[i].text]

\* C38: when two play tool calls handled concurrently have both ended with
\* songs found, the daemon's queue is the queue one of the two produces alone
C38_NoInterleaving ==
    (PlayEnded = Callers /\ \A p \in Callers : server.h[p].stage = "finished")
        => \E p \in Callers : daemon.queue = PlayQueue(server.h[p])
=============================================================================
